---- MODULE Spec2Model ----
(***************************************************************************)
(* The import/enrichment pipeline of ProductEmbeddingService               *)
(* (src/src/app/lib/embedding/embed_products.ts): one import job           *)
(* (processAndStoreProducts) for one tenant, run against the relational    *)
(* mirror (table search_ai_vector) and the tenant's vector-index namespace.*)
(*                                                                         *)
(* Strings are sequences of character codes, so that checksums, the base   *)
(* text and the normalisation of descriptions are computed as the code     *)
(* computes them.  An absent value (undefined / null) is Null.             *)
(***************************************************************************)
EXTENDS Integers, Sequences, FiniteSets, TLC

\* undefined / null of an optional string: a sequence that is no string
Null == <<-1>>

(***************************************************************************)
(* Bounds of the model.                                                    *)
(***************************************************************************)
\* longest catalog of the exhaustively enumerated small scenarios
MaxLen == 3
\* failures of the stores (mirror query, mirror upsert, vector-index upsert)
\* injected into one import job of a small or chunked scenario
MaxFaults == 2

\* single-product operations called beside one import job
MaxOps == 2

\* calls of getAIResponse followed one after the other
MaxAsks == 2

\* requests to the import endpoint
MaxPosts == 2
\* the longest text the vision service answers, or a row holds, when the
\* formatting of descriptions is examined
MaxText == 4
\* createApiKey calls followed
MaxKeys == 3

(***************************************************************************)
(* Program constants.                                                      *)
(***************************************************************************)
PROCESSING_BATCH_SIZE == 100
MAX_CONCURRENT_API_CALLS == 10
PINECONE_BATCH_SIZE == 50

(***************************************************************************)
(* Strings.                                                                *)
(***************************************************************************)
SP == <<32>>            \* " "
NL == <<10>>            \* "\n"
EmptyStr == <<>>

\* JavaScript truthiness of an optional string: undefined, null and "" are falsy
Truthy(s) == s # Null /\ s # EmptyStr

\* s ?? d
OrElse(s, d) == IF s = Null THEN d ELSE s

Min(a, b) == IF a < b THEN a ELSE b

\* Array.prototype.slice(from, to) with 0-based from, exclusive to
Slice(s, from, to) == SubSeq(s, from + 1, Min(to, Len(s)))

\* Math.ceil(n / d)
CeilDiv(n, d) == (n + d - 1) \div d

(***************************************************************************)
(* generateChecksum: sum = (sum << 5) - sum + code, truncated to a signed  *)
(* 32-bit integer after every character, then Math.abs(sum).toString(36).  *)
(* The 32-bit product is computed on 16-bit halves.                        *)
(***************************************************************************)
Wrap16(x) == ((x + 32768) % 65536) - 32768

\* one round of the loop: ToInt32(31 * sum + code) for a signed 32-bit sum
ChecksumStep(sum, code) ==
    LET lo    == sum % 65536
        hi    == (sum - lo) \div 65536
        t     == 31 * lo + code
        newLo == t % 65536
        newHi == Wrap16(31 * hi + (t \div 65536))
    IN  newHi * 65536 + newLo

RECURSIVE ChecksumSum(_, _)
ChecksumSum(input, sum) ==
    IF input = <<>> THEN sum
    ELSE ChecksumSum(Tail(input), ChecksumStep(sum, Head(input)))

\* the character of one base-36 digit: 0-9 then a-z
Base36Digit(d) == IF d < 10 THEN 48 + d ELSE 87 + d

RECURSIVE Base36(_)
Base36(n) ==
    IF n < 36 THEN <<Base36Digit(n)>>
    ELSE Append(Base36(n \div 36), Base36Digit(n % 36))

\* Math.abs(-2^31) = 2^31 = "zik0zk" in base 36
generateChecksum(input) ==
    LET sum == ChecksumSum(input, 0)
    IN  IF sum = -2147483647 - 1
        THEN <<122, 105, 107, 48, 122, 107>>
        ELSE Base36(IF sum < 0 THEN -sum ELSE sum)

(***************************************************************************)
(* The formatting of a description returned by the vision service          *)
(* (processProduct, the chain of replace / trim / split / join).           *)
(***************************************************************************)
CR == 13
LF == 10
SPACE == 32
\* \s of a JavaScript regular expression, on the characters used here
IsSpace(c) == c \in {9, 10, 11, 12, 13, 32}
\* \w: [A-Za-z0-9_]
IsWord(c) == (c >= 48 /\ c <= 57) \/ (c >= 65 /\ c <= 90) \/ (c >= 97 /\ c <= 122) \/ c = 95
\* [.!?]
IsSentenceEnd(c) == c \in {46, 33, 63}
\* [,;]
IsClauseEnd(c) == c \in {44, 59}

\* .replace(/\r\n/g, "\n").replace(/\r/g, "\n"): every \r\n and every
\* remaining \r becomes one \n
RECURSIVE NormalizeLineBreaks(_)
NormalizeLineBreaks(s) ==
    IF s = <<>> THEN <<>>
    ELSE IF Head(s) = CR /\ Len(s) > 1 /\ s[2] = LF
         THEN <<LF>> \o NormalizeLineBreaks(SubSeq(s, 3, Len(s)))
    ELSE IF Head(s) = CR THEN <<LF>> \o NormalizeLineBreaks(Tail(s))
    ELSE <<Head(s)>> \o NormalizeLineBreaks(Tail(s))

\* faulty variant: .replace(/\s/g, " "), every white space character on its own
CollapseEach(s) == [k \in 1..Len(s) |-> IF IsSpace(s[k]) THEN SPACE ELSE s[k]]

\* .replace(/\s+/g, " ")
RECURSIVE CollapseWhitespace(_)
CollapseWhitespace(s) ==
    IF s = <<>> THEN <<>>
    ELSE IF IsSpace(Head(s))
         THEN IF Len(s) > 1 /\ IsSpace(s[2])
              THEN CollapseWhitespace(Tail(s))
              ELSE <<SPACE>> \o CollapseWhitespace(Tail(s))
    ELSE <<Head(s)>> \o CollapseWhitespace(Tail(s))

RECURSIVE TrimStart(_)
TrimStart(s) == IF s # <<>> /\ IsSpace(Head(s)) THEN TrimStart(Tail(s)) ELSE s

RECURSIVE TrimEnd(_)
TrimEnd(s) ==
    IF s # <<>> /\ IsSpace(s[Len(s)]) THEN TrimEnd(SubSeq(s, 1, Len(s) - 1)) ELSE s

\* String.prototype.trim
Trim(s) == TrimEnd(TrimStart(s))

\* .replace(/([.!?]) /g, "$1\n")
SplitSentences(s) ==
    [k \in 1..Len(s) |->
        IF k > 1 /\ s[k] = SPACE /\ IsSentenceEnd(s[k - 1]) THEN LF ELSE s[k]]

\* .replace(/(\w+)([,;]) /g, "$1$2\n")
SplitClauses(s) ==
    [k \in 1..Len(s) |->
        IF k > 2 /\ s[k] = SPACE /\ IsClauseEnd(s[k - 1]) /\ IsWord(s[k - 2])
        THEN LF ELSE s[k]]

\* .split("\n"): the lines of s (at least one, possibly empty)
RECURSIVE SplitLines(_, _)
SplitLines(s, line) ==
    IF s = <<>> THEN <<line>>
    ELSE IF Head(s) = LF THEN <<line>> \o SplitLines(Tail(s), <<>>)
    ELSE SplitLines(Tail(s), Append(line, Head(s)))

\* .join("\n")
RECURSIVE JoinLines(_)
JoinLines(lines) ==
    IF lines = <<>> THEN <<>>
    ELSE IF Len(lines) = 1 THEN Head(lines)
    ELSE Head(lines) \o NL \o JoinLines(Tail(lines))

\* .map((line) => line.trim()).filter((line) => line.length > 0)
TrimmedNonEmpty(lines) ==
    SelectSeq([k \in 1..Len(lines) |-> Trim(lines[k])], LAMBDA l : Len(l) > 0)

\* the whole chain applied to a non-empty description
FormatDescription(raw) ==
    JoinLines(TrimmedNonEmpty(SplitLines(
        SplitClauses(SplitSentences(Trim(CollapseWhitespace(NormalizeLineBreaks(raw))))),
        <<>>)))

\* faulty variant: [baseText, imageDescription].join("\n"), without the filter
CombineTextUnfiltered(baseText, imageDescription) ==
    baseText \o NL \o (IF imageDescription = Null THEN EmptyStr ELSE imageDescription)

\* [baseText, imageDescription].filter(Boolean).join("\n")
CombineText(baseText, imageDescription) ==
    JoinLines(SelectSeq(<<baseText, imageDescription>>, Truthy))

(***************************************************************************)
(* Products (interface Product of the conversion layer).  images is the    *)
(* list of image URLs; a missing list and an empty list behave alike in    *)
(* every place the pipeline reads them, and both are <<>> here.            *)
(***************************************************************************)
RECURSIVE DecString(_)
\* Number.prototype.toString() of a non-negative integer
DecString(n) ==
    IF n < 10 THEN <<48 + n>> ELSE Append(DecString(n \div 10), 48 + (n % 10))

\* `app_${appId}`
Namespace(app) == <<97, 112, 112, 95>> \o DecString(app)

\* product.images && product.images.length > 0 ? product.images[0] : undefined
FirstImageUrl(product) ==
    IF Len(product.images) > 0 THEN product.images[1] ELSE Null

\* `${product.name} ${product.description ?? ""}`
BaseText(product) == product.name \o SP \o OrElse(product.description, EmptyStr)

\* faulty variant: the checksum is taken of the last image
ImageUrlChecksumOfLast(product) ==
    IF Len(product.images) > 0
    THEN generateChecksum(product.images[Len(product.images)]) ELSE Null

\* firstImageUrl ? generateChecksum(firstImageUrl) : undefined
ImageUrlChecksum(product) ==
    IF Truthy(FirstImageUrl(product))
    THEN generateChecksum(FirstImageUrl(product)) ELSE Null

\* the record returned by processProduct, given the image description it
\* ended with
StoreInfo(product, imageDescription) ==
    [product_id          |-> DecString(product.product_id),
     product_name        |-> product.name,
     product_description |-> OrElse(product.description, EmptyStr),
     text                |-> CombineText(BaseText(product), imageDescription),
     text_checksum       |-> generateChecksum(
                                 CombineText(BaseText(product), imageDescription)),
     image_description   |-> imageDescription,
     first_image_url     |-> FirstImageUrl(product),
     image_url_checksum  |-> ImageUrlChecksum(product),
     isPublished         |-> product.isPublished]

\* A response of visionService.describeImages: it throws, or returns a string.
AiThrows == [ok |-> FALSE, text |-> EmptyStr]
\* no response yet
NoAnswer == [ok |-> FALSE, text |-> Null]
AiReturns(text) == [ok |-> TRUE, text |-> text]

\* processProduct after the vision call: the catch block keeps the
\* description found in the mirror, an empty answer is kept as it is, and
\* a non-empty answer is formatted
DescriptionAfterVision(existingImageDescription, response) ==
    IF ~response.ok THEN existingImageDescription
    ELSE IF ~Truthy(response.text) THEN response.text
    ELSE FormatDescription(response.text)

\* processProduct: is the vision service called, given what the mirror held
NeedsVision(product, existingImageDescription) ==
    Len(product.images) > 0 /\ ~Truthy(existingImageDescription)

(***************************************************************************)
(* processProductWithCache, on the map of descriptions prefetched for the  *)
(* chunk.  A map is a function from checksums to descriptions.             *)
(***************************************************************************)
MapGet(map, key) == IF key \in DOMAIN map THEN map[key] ELSE Null

CachedDescription(product, cachedDescriptions) ==
    IF Truthy(FirstImageUrl(product))
    THEN MapGet(cachedDescriptions, generateChecksum(FirstImageUrl(product)))
    ELSE Null

processProductWithCache(product, cachedDescriptions) ==
    LET firstImageUrl    == FirstImageUrl(product)
        baseText         == product.name \o SP \o OrElse(product.description, EmptyStr)
        imageDescription == CachedDescription(product, cachedDescriptions)
        imageUrlChecksum == IF Truthy(firstImageUrl)
                            THEN generateChecksum(firstImageUrl) ELSE Null
        finalText        == CombineText(baseText, imageDescription)
    IN  [product_id          |-> DecString(product.product_id),
         product_name        |-> product.name,
         product_description |-> OrElse(product.description, EmptyStr),
         text                |-> finalText,
         text_checksum       |-> generateChecksum(finalText),
         image_description   |-> imageDescription,
         first_image_url     |-> firstImageUrl,
         image_url_checksum  |-> imageUrlChecksum,
         isPublished         |-> product.isPublished]

(***************************************************************************)
(* The two stores.  The mirror is the table search_ai_vector, a set of     *)
(* rows; the vector index is a set of records, each in a namespace.        *)
(***************************************************************************)
\* the row written by batchInsertProducts for one record
MirrorRowNoImageChecksum(app, info) ==
    [appId            |-> app,
     productId        |-> info.product_id,
     productName      |-> info.product_name,
     fullText         |-> info.text_checksum,
     imageUrls        |-> EmptyStr,
     imageDescription |-> info.image_description,
     isPublished      |-> info.isPublished]

MirrorRow(app, info) ==
    [appId            |-> app,
     productId        |-> info.product_id,
     productName      |-> info.product_name,
     fullText         |-> info.text_checksum,
     imageUrls        |-> OrElse(info.image_url_checksum, EmptyStr),
     imageDescription |-> info.image_description,
     isPublished      |-> info.isPublished]

\* onConflictDoUpdate({target: [appId, productId], set: {...}}): the set
\* clause assigns every listed column whose value is not undefined; an
\* undefined image_description leaves the column of the existing row as it is
ConflictUpdate(old, row) ==
    [row EXCEPT !.imageDescription =
        IF row.imageDescription = Null THEN old.imageDescription ELSE @]

\* faulty variant: a plain insert, without the conflict clause
UpsertRowInsertOnly(rows, row) == rows \cup {row}

\* db.insert(vectors).values(row).onConflictDoUpdate(...)
UpsertRow(rows, row) ==
    LET hit(r) == r.appId = row.appId /\ r.productId = row.productId
    IN  IF \E r \in rows : hit(r)
        THEN {IF hit(r) THEN ConflictUpdate(r, row) ELSE r : r \in rows}
        ELSE rows \cup {row}

\* the record sent to the vector index for one StoreInfo
PineconeRecord(ns, info) ==
    [namespace          |-> ns,
     id                 |-> info.product_id,
     text               |-> info.text,
     description        |-> OrElse(info.image_description, EmptyStr),
     firstImageUrl      |-> OrElse(info.first_image_url, EmptyStr),
     productName        |-> info.product_name,
     productDescription |-> info.product_description,
     productId          |-> info.product_id,
     isPublished        |-> info.isPublished]

\* index.namespace(ns).upsertRecords(batch)
UpsertRecords(index, ns, batch) ==
    LET ids == {batch[k].product_id : k \in 1..Len(batch)}
        \* of two records of the batch with one id the later one stays
        last(id) == CHOOSE k \in 1..Len(batch) :
                        /\ batch[k].product_id = id
                        /\ \A j \in (k + 1)..Len(batch) : batch[j].product_id # id
    IN  {r \in index : ~(r.namespace = ns /\ r.id \in ids)}
            \cup {PineconeRecord(ns, batch[last(id)]) : id \in ids}

\* faulty variant: the query is not restricted to the tenant
RowsWithImageAnyTenant(rows, app, checksums) ==
    {r \in rows : r.imageUrls \in checksums}

\* db.query.vectors.findFirst / findMany: the rows of a tenant with one of
\* the image checksums
RowsWithImage(rows, app, checksums) ==
    {r \in rows : r.appId = app /\ r.imageUrls \in checksums}

(***************************************************************************)
(* Inputs: the catalogs of the shop, what the stores hold before the job,  *)
(* and what the vision service may answer.                                 *)
(***************************************************************************)
U1 == <<117, 49>>                       \* image URL "u1"
U2 == <<117, 50>>                       \* image URL "u2"
RawDescription == <<32, 65, 98, 46, 32, 13, 10, 99, 44, 32, 100, 32>>  \* " Ab. \r\nc, d "
BlankDescription == <<32, 32>>          \* "  "

ProductA == [product_id |-> 1, name |-> <<97>>, description |-> <<120>>,
             images |-> <<U1>>, isPublished |-> TRUE]
ProductB == [product_id |-> 2, name |-> <<98>>, description |-> Null,
             images |-> <<U2, U1>>, isPublished |-> FALSE]
ProductC == [product_id |-> 3, name |-> <<99>>, description |-> Null,
             images |-> <<>>, isPublished |-> TRUE]
ProductPool == {ProductA, ProductB, ProductC}

\* every catalog of at most MaxLen products of the pool
SmallCatalogs == UNION {[1..n -> ProductPool] : n \in 0..MaxLen}

\* product k of a long catalog: no image, but for the first and the last
\* product, which share image U1
BulkProduct(k, n) ==
    [product_id |-> k, name |-> <<112>>, description |-> Null,
     images |-> IF k = 1 \/ k = n THEN <<U1>> ELSE <<>>, isPublished |-> TRUE]
BulkCatalog(n) == [k \in 1..n |-> BulkProduct(k, n)]

\* a catalog whose products all need the vision service
ImageProduct(k) ==
    [product_id |-> k, name |-> <<113>>, description |-> Null,
     images |-> <<U1 \o DecString(k)>>, isPublished |-> TRUE]
ImageCatalog(n) == [k \in 1..n |-> ImageProduct(k)]

AllAnswers == {AiThrows, AiReturns(EmptyStr), AiReturns(RawDescription),
               AiReturns(BlankDescription)}

\* The stores before the job: empty, or as an earlier import of three
\* products of the same tenant left them (product 8 with image U1 and a
\* description, product 9 with image U2 and none, product 7 with image U2
\* and the empty description of an empty vision answer).
Earlier ==
    <<StoreInfo([product_id |-> 8, name |-> <<104>>, description |-> Null,
                 images |-> <<U1>>, isPublished |-> TRUE],
                FormatDescription(RawDescription)),
      StoreInfo([product_id |-> 9, name |-> <<105>>, description |-> Null,
                 images |-> <<U2>>, isPublished |-> FALSE],
                Null),
      StoreInfo([product_id |-> 7, name |-> <<103>>, description |-> Null,
                 images |-> <<U2>>, isPublished |-> TRUE],
                EmptyStr)>>
EmptyStores == [index |-> {}, rows |-> {}]
WarmStores(app) ==
    [index |-> UpsertRecords({}, Namespace(app), Earlier),
     rows  |-> {MirrorRow(app, Earlier[k]) : k \in 1..Len(Earlier)}]

Tenant == 1

\* A scenario: the catalog, the stores before the job, the store failures
\* the job may meet and the answers of the vision service.
Scenarios ==
    [catalog : SmallCatalogs, stores : {EmptyStores, WarmStores(Tenant)},
     budget : {MaxFaults}, answers : {AllAnswers}]
    \cup
    [catalog : {BulkCatalog(PROCESSING_BATCH_SIZE),
                BulkCatalog(PROCESSING_BATCH_SIZE + 1)},
     stores : {EmptyStores}, budget : {MaxFaults},
     answers : {{AiReturns(RawDescription)}}]
    \cup
    [catalog : {ImageCatalog(MAX_CONCURRENT_API_CALLS + 1)},
     stores : {EmptyStores}, budget : {0},
     answers : {{AiReturns(<<120>>)}}]

(***************************************************************************)
(* State.                                                                  *)
(***************************************************************************)
VARIABLES
    \* the world around the job
    pluginName,      \* apps.pluginName of the tenant ("none": no row or null)
    pluginConfig,    \* the tenant's row of plugin_config_shopcada
    shop,            \* the catalog the shop's API serves
    answers,         \* what describeImages may answer
    budget,          \* store failures the job may still meet: see faults
    vectorIndex,     \* the records of the vector index
    mirror,          \* the rows of search_ai_vector
    \* processAndStoreProducts
    pc,
    products,
    i,
    totalProcessedProducts,
    outcome,
    \* processProductsBatchParallel
    existingDescriptions,
    productsNeedingImageProcessing,
    productsWithCachedImages,
    results,
    fastIndex,       \* products of productsWithCachedImages already processed
    groupStart,      \* the loop index i of the concurrent groups
    phase,           \* of each processProduct call of the group
    existingImageDescription,
    groupResults,
    \* batchInsertProducts
    processedProducts,
    upsertStart,     \* the loop index i of the vector-index sub-batches
    rowIndex,        \* records already upserted to the mirror
    \* history
    chunkLog,        \* one entry per chunk started
    aiInFlight,      \* describeImages calls issued and not yet settled
    aiCalls,         \* describeImages calls issued
    visionAnswer,    \* what describeImages answered each call of the group
    storeCalls,      \* the chunks batchInsertProducts was called for, in order
    fetches,         \* calls of getPluginProducts
    faults,          \* store failures met
    \* the service around the job
    run,             \* 1 in the tenant's first import job, 2 in its re-run
    previous,        \* what the job before this one left
    op,              \* the single-product operation in progress, if any
    opResult,        \* what the last single-product operation answered
    opsStarted,      \* single-product operations started
    \* ShopcadaPlugin.getAllProducts, when the fetch is followed page by page
    api,             \* what the shop's API answers for each page
    allProducts,     \* the raw products of the pages fetched
    totalPages,
    page,            \* the next page to fetch
    \* getAIResponse, when a call of it is followed step by step
    sharedClient,    \* whether the shared OpenAI client has been built
    ask,             \* the call of getAIResponse in progress, if any
    aiResult,        \* what the last call of getAIResponse gave its caller
    asks,            \* calls of getAIResponse made
    \* POST /api/apps/[appId]/import
    tables,          \* the app, api_key and plugin_config_shopcada tables
    request,         \* the request handled last
    reply,           \* the response it was given
    started,         \* the app ids processAndStoreProducts was called with
    posts,           \* requests handled
    keyCall          \* the createApiKey call in progress, and those made

worldVars == <<pluginName, pluginConfig, shop, answers, budget>>
svcVars   == <<run, previous, op, opResult, opsStarted>>
fetchVars == <<api, allProducts, totalPages, page>>
aiVars    == <<sharedClient, ask, aiResult, asks>>
httpVars  == <<tables, request, reply, started, posts, keyCall>>
envVars   == <<worldVars, svcVars, fetchVars, aiVars, httpVars>>
storeVars == <<vectorIndex, mirror>>
jobVars   == <<pc, products, i, totalProcessedProducts, outcome>>
batchVars == <<existingDescriptions, productsNeedingImageProcessing,
               productsWithCachedImages, results, fastIndex, groupStart>>
groupVars == <<phase, existingImageDescription, groupResults>>
writeVars == <<processedProducts, upsertStart, rowIndex>>
histVars  == <<chunkLog, aiInFlight, aiCalls, visionAnswer, storeCalls, fetches, faults>>
vars == <<envVars, storeVars, jobVars, batchVars, groupVars, writeVars, histVars>>

\* App.register("shopcada", ShopcadaPluginInfo)
Registry == {"shopcada"}

NoOutcome == [kind |-> "none", message |-> "", cause |-> "", imported_count |-> 0,
              status |-> 0]
Raised(message, cause) ==
    [kind |-> "raised", message |-> message, cause |-> cause, imported_count |-> 0,
     status |-> 0]

\* no job before this one
NoPrevious == [outcome |-> NoOutcome, log |-> <<>>, records |-> <<>>]

\* no single-product operation in progress, none answered
NoOp == [kind |-> "none", id |-> <<>>, flag |-> FALSE, product |-> <<>>,
         at |-> "", found |-> Null, info |-> <<>>, via |-> ""]
NoOpResult == [kind |-> "none", of |-> "none", success |-> FALSE, status |-> 0,
               message |-> ""]

\* processAndStoreProducts has not been entered
JobAtStart ==
    /\ pc = "start"
    /\ products = <<>>
    /\ i = 0
    /\ totalProcessedProducts = 0
    /\ outcome = NoOutcome
    /\ existingDescriptions = << >>
    /\ productsNeedingImageProcessing = <<>>
    /\ productsWithCachedImages = <<>>
    /\ results = <<>>
    /\ fastIndex = 0
    /\ groupStart = 0
    /\ phase = <<>>
    /\ existingImageDescription = <<>>
    /\ groupResults = <<>>
    /\ processedProducts = <<>>
    /\ upsertStart = 0
    /\ rowIndex = 0
    /\ chunkLog = <<>>
    /\ aiInFlight = 0
    /\ aiCalls = 0
    /\ visionAnswer = <<>>
    /\ storeCalls = <<>>
    /\ fetches = 0

\* an API whose pages are not followed one by one
NoApi == [count |-> 0, limit |-> 0, pages |-> <<>>]

\* getAllProducts has not been entered
FetchAtStart ==
    /\ allProducts = <<>>
    /\ totalPages = 1
    /\ page = 0

\* no call of getAIResponse is in progress and none has returned; a call
\* that has ended leaves its locals (the last answer of create among them)
NoCompletion == [kind |-> "none"]
NoUrls == [defined |-> FALSE, urls |-> <<>>]
\* no withRetry has finished: how it ended, what it returned or threw, what
\* its calls of fn gave and the delays it slept
NoEnded == [how |-> "none", value |-> NoCompletion, tries |-> <<>>, delays |-> <<>>]
NoAsk == [pc |-> "idle", imageUrls |-> NoUrls, urlIndex |-> 0, validUrls |-> <<>>,
          attempt |-> 0, completion |-> NoCompletion,
          tries |-> <<>>, delays |-> <<>>, lastError |-> NoCompletion,
          ended |-> NoEnded, requests |-> 0, fallbacks |-> 0]
NoAiResult == [kind |-> "none", text |-> Null]

\* let sharedClient: OpenAI | null = null
AiAtStart ==
    /\ sharedClient = FALSE
    /\ ask = NoAsk
    /\ aiResult = NoAiResult
    /\ asks = 0

\* no request has reached the import endpoint
NoRequest == [appId |-> <<>>, authorization |-> Null]
NoReply == [status |-> 0, error |-> ""]
\* no createApiKey call was made, no key was presented
NoKeyCall == [pc |-> "idle", appId |-> 0, apiKey |-> Null, made |-> <<>>,
              header |-> Null, accepted |-> FALSE]

HttpAtStart ==
    /\ request = NoRequest
    /\ reply = NoReply
    /\ started = <<>>
    /\ posts = 0
    /\ keyCall = NoKeyCall

\* the tables of a service whose import endpoint is not followed
NoTables == [apps |-> <<>>, keys |-> <<>>, configs |-> <<>>, route |-> ""]

\* the service before its first job, in one of the scenarios
BeginService(scenarios) ==
    /\ \E sc \in scenarios :
          /\ shop = sc.catalog
          /\ answers = sc.answers
          /\ budget = sc.budget
          /\ vectorIndex = sc.stores.index
          /\ mirror = sc.stores.rows
    /\ JobAtStart
    /\ faults = 0
    /\ run = 1
    /\ previous = NoPrevious
    /\ op = NoOp
    /\ opResult = NoOpResult
    /\ opsStarted = 0
    /\ FetchAtStart
    /\ api = NoApi
    /\ AiAtStart
    /\ HttpAtStart

\* the same, the import endpoint left aside
Begin(scenarios) ==
    /\ BeginService(scenarios)
    /\ tables = NoTables

Init ==
    /\ pluginName \in {"none", "shopcada", "other"}
    /\ pluginConfig \in {"absent", "blank", "set"}
    /\ Begin(Scenarios)

(***************************************************************************)
(* getPluginProducts: get_plugin_name, createApp, init, getAllProducts.    *)
(* apiOk is whether the shop's API answers the first page.  Any error is   *)
(* rethrown as "Failed to get products for app ...: <message>".            *)
(***************************************************************************)
\* faulty variant: init() does not check that the configuration row exists
PluginErrorNoConfigCheck(apiOk) ==
    IF pluginName = "none" THEN "Plugin not found for app ID"
    ELSE IF pluginName \notin Registry THEN "Plugin not found"
    ELSE IF ~apiOk THEN "Failed to fetch products"
    ELSE ""

PluginError(apiOk) ==
    IF pluginName = "none" THEN "Plugin not found for app ID"
    ELSE IF pluginName \notin Registry THEN "Plugin not found"
    ELSE IF pluginConfig = "absent" THEN "Shopcada plugin configuration not found"
    ELSE IF pluginConfig = "blank" THEN "Plugin not initialized. Call init() first."
    ELSE IF ~apiOk THEN "Failed to fetch products"
    ELSE ""

\* the errors thrown inside the try block of getPluginProducts are wrapped by
\* its catch; `return app.getAllProducts()` hands the promise back without
\* awaiting it, so a rejection of getAllProducts reaches the caller as it is
ThrownInsideTry ==
    \/ pluginName = "none"
    \/ pluginName \notin Registry
    \/ pluginConfig = "absent"

FetchError(apiOk) ==
    IF ThrownInsideTry
    THEN Raised("Failed to get products for app", PluginError(apiOk))
    ELSE Raised(PluginError(apiOk), "")

GetPluginProducts ==
    /\ pc = "start"
    /\ \E apiOk \in BOOLEAN :
          IF PluginError(apiOk) # ""
          THEN /\ outcome' = FetchError(apiOk)
               /\ pc' = "done"
               /\ UNCHANGED products
          ELSE /\ products' = shop
               /\ pc' = "loop"
               /\ UNCHANGED outcome
    /\ fetches' = fetches + 1
    /\ UNCHANGED <<i, totalProcessedProducts>>
    /\ UNCHANGED <<envVars, storeVars, batchVars, groupVars, writeVars>>
    /\ UNCHANGED <<chunkLog, aiInFlight, aiCalls, visionAnswer, storeCalls, faults>>

(***************************************************************************)
(* processAndStoreProducts: the loop over the chunks.                      *)
(***************************************************************************)
\* products.slice(i, i + PROCESSING_BATCH_SIZE)
Batch == Slice(products, i, i + PROCESSING_BATCH_SIZE)

\* Math.floor(i / PROCESSING_BATCH_SIZE) + 1
BatchNumber == (i \div PROCESSING_BATCH_SIZE) + 1

\* faulty variants of the loop's step: one product short, and no step at all
NextBatchStartShort(start) == start + PROCESSING_BATCH_SIZE - 1
NextBatchStartStuck(start) == start

\* the loop's step: i += PROCESSING_BATCH_SIZE
NextBatchStart(start) == start + PROCESSING_BATCH_SIZE

\* the first-image checksums of a chunk (imageChecksums)
ImageChecksums(batch) ==
    {ImageUrlChecksum(batch[k]) : k \in {j \in 1..Len(batch) :
                                            ImageUrlChecksum(batch[j]) # Null}}

\* faulty variant: a row with an empty description counts as described
DescribedRowsNonNull(rows) ==
    {r \in rows : Truthy(r.imageUrls) /\ r.imageDescription # Null}

\* the maps the loop over the rows found may build: an entry for every
\* checksum of a row with a non-empty description, holding the description
\* of the last such row in the order the query returned them
DescribedRows(rows) == {r \in rows : Truthy(r.imageUrls) /\ Truthy(r.imageDescription)}
DescriptionMaps(rows) ==
    LET keys == {r.imageUrls : r \in DescribedRows(rows)}
    IN  {m \in [keys -> {r.imageDescription : r \in DescribedRows(rows)}] :
            \A c \in keys : \E r \in DescribedRows(rows) :
                r.imageUrls = c /\ r.imageDescription = m[c]}

\* faulty variant: every product with a first image needs image processing
NeedsImageProcessingAlways(product, map) == Truthy(FirstImageUrl(product))

\* the split of a chunk: a product with a first image whose checksum has no
\* prefetched description needs image processing, every other one does not
NeedsImageProcessing(product, map) ==
    /\ Truthy(FirstImageUrl(product))
    /\ generateChecksum(FirstImageUrl(product)) \notin DOMAIN map

Needing(batch, map) == SelectSeq(batch, LAMBDA p : NeedsImageProcessing(p, map))
Cached(batch, map) == SelectSeq(batch, LAMBDA p : ~NeedsImageProcessing(p, map))

\* the history entry of the chunk being processed
LogLast(field, value) == [chunkLog EXCEPT ![Len(chunkLog)][field] = value]

SplitChunk(map) ==
    /\ existingDescriptions' = map
    /\ productsNeedingImageProcessing' = Needing(Batch, map)
    /\ productsWithCachedImages' = Cached(Batch, map)
    /\ results' = <<>>
    /\ fastIndex' = 0
    /\ groupStart' = 0

\* a chunk starts: with images to pre-check, the query findMany is issued;
\* with none, the chunk is split at once
StartBatch ==
    /\ pc = "loop"
    /\ i < Len(products)
    /\ chunkLog' = Append(chunkLog,
            [batchNumber |-> BatchNumber, first |-> i, size |-> Len(Batch),
             enriched |-> FALSE, ids |-> <<>>, threw |-> {}, dropped |-> 0,
             stored |-> "open", subBatches |-> <<>>, rows |-> 0, failedAt |-> "",
             groups |-> <<>>])
    /\ IF ImageChecksums(Batch) # {}
       THEN /\ pc' = "precheck"
            /\ UNCHANGED batchVars
       ELSE /\ pc' = "enrich"
            /\ SplitChunk(<< >>)
    /\ UNCHANGED <<products, i, totalProcessedProducts, outcome>>
    /\ UNCHANGED <<envVars, storeVars, groupVars, writeVars>>
    /\ UNCHANGED <<aiInFlight, aiCalls, visionAnswer, storeCalls, fetches, faults>>

\* findMany returns the rows of the tenant with one of the checksums
PrecheckReturns ==
    /\ pc = "precheck"
    /\ \E map \in DescriptionMaps(RowsWithImage(mirror, Tenant, ImageChecksums(Batch))) :
          SplitChunk(map)
    /\ pc' = "enrich"
    /\ UNCHANGED <<products, i, totalProcessedProducts, outcome>>
    /\ UNCHANGED <<envVars, storeVars, groupVars, writeVars, histVars>>

\* findMany fails: nothing catches the error before processAndStoreProducts,
\* which logs it and throws it again
PrecheckFails ==
    /\ pc = "precheck"
    /\ faults < budget
    /\ faults' = faults + 1
    /\ outcome' = Raised("query failed", "findMany")
    /\ pc' = "done"
    /\ chunkLog' = LogLast("stored", "aborted")
    /\ UNCHANGED <<products, i, totalProcessedProducts>>
    /\ UNCHANGED <<envVars, storeVars, batchVars, groupVars, writeVars>>
    /\ UNCHANGED <<aiInFlight, aiCalls, visionAnswer, storeCalls, fetches>>

\* the fast path: one product with cached data (or no image) is processed
FastPath ==
    /\ pc = "enrich"
    /\ fastIndex < Len(productsWithCachedImages)
    /\ results' = Append(results,
            processProductWithCache(productsWithCachedImages[fastIndex + 1],
                                    existingDescriptions))
    /\ fastIndex' = fastIndex + 1
    /\ UNCHANGED <<existingDescriptions, productsNeedingImageProcessing,
                   productsWithCachedImages, groupStart>>
    /\ UNCHANGED <<envVars, storeVars, jobVars, groupVars, writeVars, histVars>>

(***************************************************************************)
(* The slow path: concurrent groups of processProduct calls.               *)
(***************************************************************************)
\* productsNeedingImageProcessing.slice(i, i + MAX_CONCURRENT_API_CALLS)
ConcurrentGroup ==
    Slice(productsNeedingImageProcessing, groupStart,
          groupStart + MAX_CONCURRENT_API_CALLS)

\* how far processProduct runs before its first await: to the mirror query
\* when the product has a first-image checksum, else to the vision call when
\* it has images, else to its end
EntryPhase(product) ==
    IF ImageUrlChecksum(product) # Null THEN "lookup"
    ELSE IF NeedsVision(product, Null) THEN "vision"
    ELSE "done"

CountOf(phases, name) == Cardinality({k \in 1..Len(phases) : phases[k] = name})

\* faulty variant: the slow path does not wait for the fast path
GroupMayStartEarly ==
    /\ pc = "enrich"
    /\ groupStart < Len(productsNeedingImageProcessing)

\* the fast path is over and slow-path products are left
GroupMayStart ==
    /\ pc = "enrich"
    /\ fastIndex = Len(productsWithCachedImages)
    /\ groupStart < Len(productsNeedingImageProcessing)

\* concurrentGroup.map(async (product) => ...) starts every call of the group
StartGroup ==
    /\ GroupMayStart
    /\ LET group  == ConcurrentGroup
           phases == [k \in 1..Len(group) |-> EntryPhase(group[k])]
       IN  /\ phase' = phases
           /\ existingImageDescription' = [k \in 1..Len(group) |-> Null]
           /\ groupResults' = [k \in 1..Len(group) |->
                    IF phases[k] = "done" THEN <<StoreInfo(group[k], Null)>> ELSE <<>>]
           /\ aiInFlight' = aiInFlight + CountOf(phases, "vision")
           /\ aiCalls' = aiCalls + CountOf(phases, "vision")
           /\ visionAnswer' = [k \in 1..Len(group) |-> NoAnswer]
    /\ pc' = "group"
    /\ chunkLog' = LogLast("groups", Append(chunkLog[Len(chunkLog)].groups, groupStart))
    /\ UNCHANGED <<products, i, totalProcessedProducts, outcome>>
    /\ UNCHANGED <<envVars, storeVars, batchVars, writeVars>>
    /\ UNCHANGED <<storeCalls, fetches, faults>>

\* findFirst: any row of the tenant with the checksum, or none
FindFirst(rows, app, checksum) ==
    IF RowsWithImage(rows, app, {checksum}) = {}
    THEN {Null}
    ELSE {r.imageDescription : r \in RowsWithImage(rows, app, {checksum})}

\* the mirror query of one call returns: with a description found the record
\* is built from it, without one the vision service is called
LookupReturns(k) ==
    /\ pc = "group"
    /\ k \in 1..Len(phase)
    /\ phase[k] = "lookup"
    /\ \E found \in FindFirst(mirror, Tenant, ImageUrlChecksum(ConcurrentGroup[k])) :
          IF NeedsVision(ConcurrentGroup[k], found)
          THEN /\ phase' = [phase EXCEPT ![k] = "vision"]
               /\ existingImageDescription' =
                      [existingImageDescription EXCEPT ![k] = found]
               /\ aiInFlight' = aiInFlight + 1
               /\ aiCalls' = aiCalls + 1
               /\ UNCHANGED groupResults
          ELSE /\ phase' = [phase EXCEPT ![k] = "done"]
               /\ groupResults' =
                      [groupResults EXCEPT ![k] = <<StoreInfo(ConcurrentGroup[k], found)>>]
               /\ UNCHANGED <<existingImageDescription, aiInFlight, aiCalls>>
    /\ UNCHANGED <<envVars, storeVars, jobVars, batchVars, writeVars>>
    /\ UNCHANGED <<chunkLog, visionAnswer, storeCalls, fetches, faults>>

\* the mirror query of one call fails: processProduct throws, the group's
\* catch block logs it and the call yields null
LookupFails(k) ==
    /\ pc = "group"
    /\ k \in 1..Len(phase)
    /\ phase[k] = "lookup"
    /\ faults < budget
    /\ faults' = faults + 1
    /\ phase' = [phase EXCEPT ![k] = "done"]
    /\ chunkLog' = LogLast("dropped", chunkLog[Len(chunkLog)].dropped + 1)
    /\ UNCHANGED <<existingImageDescription, groupResults>>
    /\ UNCHANGED <<envVars, storeVars, jobVars, batchVars, writeVars>>
    /\ UNCHANGED <<aiInFlight, aiCalls, visionAnswer, storeCalls, fetches>>

\* faulty variant: the error of the vision service leaves processProduct, and the
\* call yields null
VisionResultUncaught(product, existing, response) ==
    IF response.ok
    THEN <<StoreInfo(product, DescriptionAfterVision(existing, response))>>
    ELSE <<>>

\* what a call whose vision request has settled yields: always a record
VisionResult(product, existing, response) ==
    <<StoreInfo(product, DescriptionAfterVision(existing, response))>>

\* describeImages settles for one call: it returns or throws, and either way
\* processProduct returns a record
VisionReturns(k) ==
    /\ pc = "group"
    /\ k \in 1..Len(phase)
    /\ phase[k] = "vision"
    /\ \E response \in answers :
          /\ groupResults' = [groupResults EXCEPT ![k] =
                VisionResult(ConcurrentGroup[k], existingImageDescription[k], response)]
          /\ visionAnswer' = [visionAnswer EXCEPT ![k] = response]
          /\ chunkLog' =
                IF response.ok THEN chunkLog
                ELSE LogLast("threw", chunkLog[Len(chunkLog)].threw
                                \cup {DecString(ConcurrentGroup[k].product_id)})
    /\ phase' = [phase EXCEPT ![k] = "done"]
    /\ aiInFlight' = aiInFlight - 1
    /\ UNCHANGED existingImageDescription
    /\ UNCHANGED <<envVars, storeVars, jobVars, batchVars, writeVars>>
    /\ UNCHANGED <<aiCalls, storeCalls, fetches, faults>>

\* faulty variant: Promise.all never resolves
GroupSettledNever == FALSE

\* faulty variant: the group is left as soon as one call has settled
GroupSettledAny == \E k \in 1..Len(phase) : phase[k] = "done"

\* Promise.all(promises) resolves once every call of the group has settled
GroupSettled == \A k \in 1..Len(phase) : phase[k] = "done"

RECURSIVE Flatten(_)
\* the non-null results, in the order of the group
Flatten(rs) == IF rs = <<>> THEN <<>> ELSE Head(rs) \o Flatten(Tail(rs))

GroupDone ==
    /\ pc = "group"
    /\ GroupSettled
    /\ results' = results \o Flatten(groupResults)
    /\ groupStart' = groupStart + MAX_CONCURRENT_API_CALLS
    /\ pc' = "enrich"
    /\ phase' = <<>>
    /\ existingImageDescription' = <<>>
    /\ groupResults' = <<>>
    /\ visionAnswer' = <<>>
    /\ UNCHANGED <<existingDescriptions, productsNeedingImageProcessing,
                   productsWithCachedImages, fastIndex>>
    /\ UNCHANGED <<products, i, totalProcessedProducts, outcome>>
    /\ UNCHANGED <<envVars, storeVars, writeVars>>
    /\ UNCHANGED <<chunkLog, aiInFlight, aiCalls, storeCalls, fetches, faults>>

(***************************************************************************)
(* The end of a chunk's enrichment and batchInsertProducts.                *)
(***************************************************************************)
RecordIds(records) == [k \in 1..Len(records) |-> records[k].product_id]

\* the job's loop moves to the next chunk
NextIteration ==
    /\ i' = NextBatchStart(i)
    /\ pc' = "loop"

\* faulty variant: every chunk is handed to the stores
HasRecordsAlways(records) == TRUE

\* if (processedProducts.length > 0)
HasRecords(records) == Len(records) > 0

\* processProductsBatchParallel returns: a chunk with at least one record is
\* stored, a chunk with none is only logged
FinishEnrichment ==
    /\ pc = "enrich"
    /\ fastIndex = Len(productsWithCachedImages)
    /\ groupStart >= Len(productsNeedingImageProcessing)
    /\ processedProducts' = results
    /\ upsertStart' = 0
    /\ rowIndex' = 0
    /\ IF HasRecords(results)
       THEN /\ pc' = "pinecone"
            /\ chunkLog' = [chunkLog EXCEPT ![Len(chunkLog)].enriched = TRUE,
                                            ![Len(chunkLog)].ids = RecordIds(results)]
            /\ storeCalls' = Append(storeCalls, BatchNumber)
            /\ UNCHANGED i
       ELSE /\ NextIteration
            /\ chunkLog' = [chunkLog EXCEPT ![Len(chunkLog)].enriched = TRUE,
                                            ![Len(chunkLog)].stored = "none"]
            /\ UNCHANGED storeCalls
    /\ UNCHANGED <<products, totalProcessedProducts, outcome>>
    /\ UNCHANGED <<envVars, storeVars, batchVars, groupVars>>
    /\ UNCHANGED <<aiInFlight, aiCalls, visionAnswer, fetches, faults>>

\* faulty variant: all the records in one request
SubBatchWhole == processedProducts

\* pineconeRecords.slice(i, i + PINECONE_BATCH_SIZE)
SubBatch == Slice(processedProducts, upsertStart, upsertStart + PINECONE_BATCH_SIZE)

\* one sub-batch is upserted to the tenant's namespace; after the last one
\* the mirror upserts begin
UpsertSubBatch ==
    /\ pc = "pinecone"
    /\ vectorIndex' = UpsertRecords(vectorIndex, Namespace(Tenant), SubBatch)
    /\ upsertStart' = upsertStart + PINECONE_BATCH_SIZE
    /\ pc' = IF upsertStart + PINECONE_BATCH_SIZE < Len(processedProducts)
             THEN "pinecone" ELSE "db"
    /\ chunkLog' = LogLast("subBatches",
                            Append(chunkLog[Len(chunkLog)].subBatches, Len(SubBatch)))
    /\ UNCHANGED <<processedProducts, rowIndex, mirror>>
    /\ UNCHANGED <<products, i, totalProcessedProducts, outcome>>
    /\ UNCHANGED <<envVars, batchVars, groupVars>>
    /\ UNCHANGED <<aiInFlight, aiCalls, visionAnswer, storeCalls, fetches, faults>>

\* batchInsertProducts throws: the job logs it and continues with the next
\* chunk, without counting the chunk's records
StoreFailed ==
    /\ faults < budget
    /\ faults' = faults + 1
    /\ chunkLog' = [chunkLog EXCEPT ![Len(chunkLog)].stored = "failed",
                                    ![Len(chunkLog)].failedAt = pc]
    /\ NextIteration
    /\ UNCHANGED <<products, totalProcessedProducts, outcome>>
    /\ UNCHANGED <<envVars, storeVars, batchVars, groupVars, writeVars>>
    /\ UNCHANGED <<aiInFlight, aiCalls, visionAnswer, storeCalls, fetches>>

\* the upsert of a sub-batch fails
UpsertSubBatchFails ==
    /\ pc = "pinecone"
    /\ StoreFailed

\* faulty variant: the chunk is counted as one
CountStoredChunks(total, records) == total + 1

\* batchInsertProducts returned: the chunk's records are counted
CountStored(total, records) == total + Len(records)

\* one record is upserted to the mirror; after the last one
\* batchInsertProducts returns and the job counts the chunk
UpsertMirrorRow ==
    /\ pc = "db"
    /\ mirror' = UpsertRow(mirror, MirrorRow(Tenant, processedProducts[rowIndex + 1]))
    /\ rowIndex' = rowIndex + 1
    /\ IF rowIndex + 1 = Len(processedProducts)
       THEN /\ totalProcessedProducts' =
                   CountStored(totalProcessedProducts, processedProducts)
            /\ chunkLog' = [chunkLog EXCEPT ![Len(chunkLog)].stored = "ok",
                                            ![Len(chunkLog)].rows = rowIndex + 1]
            /\ NextIteration
       ELSE /\ chunkLog' = LogLast("rows", rowIndex + 1)
            /\ UNCHANGED <<totalProcessedProducts, i, pc>>
    /\ UNCHANGED <<processedProducts, upsertStart, vectorIndex>>
    /\ UNCHANGED <<products, outcome>>
    /\ UNCHANGED <<envVars, batchVars, groupVars>>
    /\ UNCHANGED <<aiInFlight, aiCalls, visionAnswer, storeCalls, fetches, faults>>

\* the upsert of a row fails
UpsertMirrorRowFails ==
    /\ pc = "db"
    /\ StoreFailed

\* status: totalProcessedProducts > 0 ? 200 : 500
ResultStatus(total) == IF total > 0 THEN 200 ELSE 500

ResultMessage(total, fetched) ==
    IF total = fetched THEN "All products processed and stored successfully"
    ELSE "Processed some out of all products"

\* the loop is over: the structured result
ReturnResult ==
    /\ pc = "loop"
    /\ i >= Len(products)
    /\ outcome' = [kind |-> "returned",
                   message |-> ResultMessage(totalProcessedProducts, Len(products)),
                   cause |-> "",
                   imported_count |-> totalProcessedProducts,
                   status |-> ResultStatus(totalProcessedProducts)]
    /\ pc' = "done"
    /\ UNCHANGED <<products, i, totalProcessedProducts>>
    /\ UNCHANGED <<envVars, storeVars, batchVars, groupVars, writeVars, histVars>>

Next ==
    \/ GetPluginProducts
    \/ StartBatch
    \/ PrecheckReturns
    \/ PrecheckFails
    \/ FastPath
    \/ StartGroup
    \/ \E k \in 1..MAX_CONCURRENT_API_CALLS : LookupReturns(k)
    \/ \E k \in 1..MAX_CONCURRENT_API_CALLS : LookupFails(k)
    \/ \E k \in 1..MAX_CONCURRENT_API_CALLS : VisionReturns(k)
    \/ GroupDone
    \/ FinishEnrichment
    \/ UpsertSubBatch
    \/ UpsertSubBatchFails
    \/ UpsertMirrorRow
    \/ UpsertMirrorRowFails
    \/ ReturnResult

Spec == Init /\ [][Next]_vars

\* The job under the assumption that every call it awaits (the catalog
\* fetch, the mirror queries, the vision service, the two stores, the
\* timers) eventually returns or fails: a step of the job that can be taken
\* is eventually taken, be it outside the enrichment of a chunk, in its
\* fast-path loop, at the start of a group or the end of the enrichment, or
\* inside a group.
LiveScenarios ==
    [catalog : UNION {[1..n -> ProductPool] : n \in 0..(MaxLen - 1)},
     stores : {EmptyStores, WarmStores(Tenant)}, budget : {MaxFaults - 1},
     answers : {{AiThrows, AiReturns(RawDescription)}}]
    \cup
    [catalog : {BulkCatalog(PROCESSING_BATCH_SIZE + 1),
                ImageCatalog(MAX_CONCURRENT_API_CALLS + 1)},
     stores : {EmptyStores}, budget : {0},
     answers : {{AiReturns(<<120>>)}}]

InitLive ==
    /\ pluginName \in {"none", "shopcada"}
    /\ pluginConfig = "set"
    /\ Begin(LiveScenarios)

\* the fast-path loop moves on to its next product
FastPathStep ==
    /\ pc = "enrich"
    /\ fastIndex < Len(productsWithCachedImages)
    /\ fastIndex' = fastIndex + 1

\* a call of the vision service settles
VisionSettles ==
    \E k \in 1..MAX_CONCURRENT_API_CALLS :
        /\ pc = "group"
        /\ k \in 1..Len(phase)
        /\ phase[k] = "vision"
        /\ phase' = [phase EXCEPT ![k] = "done"]

\* the steps of a group but for the settling of the vision calls
GroupStep ==
    \/ \E k \in 1..MAX_CONCURRENT_API_CALLS : LookupReturns(k)
    \/ \E k \in 1..MAX_CONCURRENT_API_CALLS : LookupFails(k)
    \/ GroupDone

SpecLive ==
    /\ InitLive
    /\ [][Next]_vars
    /\ WF_vars(pc \notin {"enrich", "group"} /\ Next)
    /\ WF_fastIndex(FastPathStep)
    /\ WF_vars(StartGroup \/ FinishEnrichment)
    /\ WF_vars(GroupStep)
    /\ WF_phase(VisionSettles)

(***************************************************************************)
(* The import job run again for the same tenant on the same catalog.       *)
(***************************************************************************)
\* the scenarios of a repeated import: the catalogs of fewer than MaxLen
\* products, a vision service that throws or describes, one failure fewer
RerunCatalogs == UNION {[1..n -> ProductPool] : n \in 0..(MaxLen - 1)}
RerunScenarios ==
    [catalog : RerunCatalogs, stores : {EmptyStores, WarmStores(Tenant)},
     budget : {MaxFaults - 1}, answers : {{AiThrows, AiReturns(<<120>>)}}]

InitRerun ==
    /\ pluginName = "shopcada"
    /\ pluginConfig = "set"
    /\ Begin(RerunScenarios)

\* processAndStoreProducts is called a second time once the first job is
\* over: the catalog is the same, the stores are as the first job left them
RunAgain ==
    /\ pc = "done"
    /\ run = 1
    /\ op.kind = "none"
    /\ run' = run + 1
    /\ previous' = [outcome |-> outcome, log |-> chunkLog,
                    records |-> processedProducts]
    /\ pc' = "start"
    /\ products' = <<>>
    /\ i' = 0
    /\ totalProcessedProducts' = 0
    /\ outcome' = NoOutcome
    /\ existingDescriptions' = << >>
    /\ productsNeedingImageProcessing' = <<>>
    /\ productsWithCachedImages' = <<>>
    /\ results' = <<>>
    /\ fastIndex' = 0
    /\ groupStart' = 0
    /\ phase' = <<>>
    /\ existingImageDescription' = <<>>
    /\ groupResults' = <<>>
    /\ processedProducts' = <<>>
    /\ upsertStart' = 0
    /\ rowIndex' = 0
    /\ chunkLog' = <<>>
    /\ aiInFlight' = 0
    /\ aiCalls' = 0
    /\ visionAnswer' = <<>>
    /\ storeCalls' = <<>>
    /\ fetches' = 0
    /\ UNCHANGED <<worldVars, fetchVars, aiVars, httpVars, storeVars, faults, op,
                   opResult, opsStarted>>

NextRerun == Next \/ RunAgain

SpecRerun == InitRerun /\ [][NextRerun]_vars

(***************************************************************************)
(* The single-product operations of the service, upsertSingleProduct,      *)
(* deleteProduct and setPublishedStatus, called by the webhook handlers    *)
(* while an import job of the same tenant may be running.  Each await of   *)
(* an operation is one step.                                               *)
(***************************************************************************)
\* the products a webhook delivers: product 1 of the catalog with another
\* name and image, product 8 of the earlier import with another name
ProductD == [product_id |-> 1, name |-> <<100>>, description |-> Null,
             images |-> <<U2>>, isPublished |-> FALSE]
ProductE == [product_id |-> 8, name |-> <<101>>, description |-> Null,
             images |-> <<>>, isPublished |-> FALSE]
OpProducts == {ProductD, ProductE}
OpIds == {DecString(1), DecString(8)}

\* the rest of the service while an operation takes a step
OpFrame ==
    /\ UNCHANGED <<worldVars, fetchVars, aiVars, httpVars, run, previous>>
    /\ UNCHANGED <<jobVars, batchVars, groupVars, writeVars>>
    /\ UNCHANGED <<chunkLog, visionAnswer, storeCalls, fetches>>

OpReturned(kind, success, status, message) ==
    [kind |-> "returned", of |-> kind, success |-> success, status |-> status,
     message |-> message]
OpRaised(kind, message) ==
    [kind |-> "raised", of |-> kind, success |-> FALSE, status |-> 0,
     message |-> message]

\* the operations that run upsertSingleProduct: the webhook's upsert, and
\* setPublishedStatusWithFetch for a product the mirror does not hold
UpsertKinds == {"upsert", "publishFetch"}

\* upsertSingleProduct(product, appId) is called: processProduct begins
StartUpsert ==
    /\ op.kind = "none"
    /\ opsStarted < MaxOps
    /\ \E product \in OpProducts :
          op' = [NoOp EXCEPT !.kind = "upsert",
                             !.id = DecString(product.product_id),
                             !.product = product,
                             !.at = IF EntryPhase(product) = "done" THEN "index"
                                    ELSE EntryPhase(product),
                             !.info = StoreInfo(product, Null)]
    /\ opsStarted' = opsStarted + 1
    /\ aiInFlight' = aiInFlight + (IF op'.at = "vision" THEN 1 ELSE 0)
    /\ aiCalls' = aiCalls + (IF op'.at = "vision" THEN 1 ELSE 0)
    /\ UNCHANGED <<opResult, storeVars, faults>>
    /\ OpFrame

\* processProduct's findFirst returns
OpLookupReturns ==
    /\ op.kind \in UpsertKinds
    /\ op.at = "lookup"
    /\ \E found \in FindFirst(mirror, Tenant, ImageUrlChecksum(op.product)) :
          IF NeedsVision(op.product, found)
          THEN /\ op' = [op EXCEPT !.at = "vision", !.found = found]
               /\ aiInFlight' = aiInFlight + 1
               /\ aiCalls' = aiCalls + 1
          ELSE /\ op' = [op EXCEPT !.at = "index", !.found = found,
                                   !.info = StoreInfo(op.product, found)]
               /\ UNCHANGED <<aiInFlight, aiCalls>>
    /\ UNCHANGED <<opResult, opsStarted, storeVars, faults>>
    /\ OpFrame

\* describeImages settles: processProduct returns a record either way
OpVisionReturns ==
    /\ op.kind \in UpsertKinds
    /\ op.at = "vision"
    /\ \E response \in answers :
          op' = [op EXCEPT !.at = "index",
                           !.info = VisionResult(op.product, op.found, response)[1]]
    /\ aiInFlight' = aiInFlight - 1
    /\ UNCHANGED <<aiCalls, opResult, opsStarted, storeVars, faults>>
    /\ OpFrame

\* batchInsertProducts([processedProduct], appId): the one sub-batch
OpUpsertRecord ==
    /\ op.kind \in UpsertKinds
    /\ op.at = "index"
    /\ vectorIndex' = UpsertRecords(vectorIndex, Namespace(Tenant), <<op.info>>)
    /\ op' = [op EXCEPT !.at = "row"]
    /\ UNCHANGED <<mirror, opResult, opsStarted, aiInFlight, aiCalls, faults>>
    /\ OpFrame

\* upsertSingleProduct returns status 200, which setPublishedStatusWithFetch
\* turns into success true
UpsertAnswer(kind) ==
    IF kind = "upsert"
    THEN OpReturned(kind, TRUE, 200, "Product processed and stored successfully")
    ELSE OpReturned(kind, TRUE, 0, "fetched and published status set")

\* batchInsertProducts([processedProduct], appId): the one row, and the
\* structured result
OpUpsertRow ==
    /\ op.kind \in UpsertKinds
    /\ op.at = "row"
    /\ mirror' = UpsertRow(mirror, MirrorRow(Tenant, op.info))
    /\ op' = NoOp
    /\ opResult' = UpsertAnswer(op.kind)
    /\ UNCHANGED <<vectorIndex, opsStarted, aiInFlight, aiCalls, faults>>
    /\ OpFrame

\* index.namespace(namespace).deleteOne(productId)
DeleteOne(index, ns, id) == {r \in index : ~(r.namespace = ns /\ r.id = id)}

\* db.delete(vectors).where(and(eq(appId), eq(productId)))
DeleteWhere(rows, app, id) == {r \in rows : ~(r.appId = app /\ r.productId = id)}

\* deleteProduct(productId, appId) is called
StartDelete ==
    /\ op.kind = "none"
    /\ opsStarted < MaxOps
    /\ \E id \in OpIds : op' = [NoOp EXCEPT !.kind = "delete", !.id = id, !.at = "index"]
    /\ opsStarted' = opsStarted + 1
    /\ UNCHANGED <<opResult, storeVars, aiInFlight, aiCalls, faults>>
    /\ OpFrame

OpDeleteRecord ==
    /\ op.kind = "delete"
    /\ op.at = "index"
    /\ vectorIndex' = DeleteOne(vectorIndex, Namespace(Tenant), op.id)
    /\ op' = [op EXCEPT !.at = "row"]
    /\ UNCHANGED <<mirror, opResult, opsStarted, aiInFlight, aiCalls, faults>>
    /\ OpFrame

OpDeleteRow ==
    /\ op.kind = "delete"
    /\ op.at = "row"
    /\ mirror' = DeleteWhere(mirror, Tenant, op.id)
    /\ op' = NoOp
    /\ opResult' = OpReturned("delete", TRUE, 0, "deleted successfully")
    /\ UNCHANGED <<vectorIndex, opsStarted, aiInFlight, aiCalls, faults>>
    /\ OpFrame

\* faulty variant: the update writes the row when the mirror has none
UpdateIsPublishedOrInsert(rows, app, id, isPublished) ==
    IF \E r \in rows : r.appId = app /\ r.productId = id
    THEN {IF r.appId = app /\ r.productId = id
          THEN [r EXCEPT !.isPublished = isPublished] ELSE r : r \in rows}
    ELSE rows \cup {[appId |-> app, productId |-> id, productName |-> EmptyStr,
                     fullText |-> EmptyStr, imageUrls |-> EmptyStr,
                     imageDescription |-> Null, isPublished |-> isPublished]}

\* index.namespace(namespace).update({id, metadata: {isPublished}})
UpdateMetadata(index, ns, id, isPublished) ==
    {IF r.namespace = ns /\ r.id = id
     THEN [r EXCEPT !.isPublished = isPublished] ELSE r : r \in index}

\* db.update(vectors).set({isPublished}).where(and(eq(appId), eq(productId)))
UpdateIsPublished(rows, app, id, isPublished) ==
    {IF r.appId = app /\ r.productId = id
     THEN [r EXCEPT !.isPublished = isPublished] ELSE r : r \in rows}

\* setPublishedStatus(productId, appId, isPublished) is called
StartPublish ==
    /\ op.kind = "none"
    /\ opsStarted < MaxOps
    /\ \E id \in OpIds, isPublished \in BOOLEAN :
          op' = [NoOp EXCEPT !.kind = "publish", !.id = id, !.flag = isPublished,
                             !.at = "index"]
    /\ opsStarted' = opsStarted + 1
    /\ UNCHANGED <<opResult, storeVars, aiInFlight, aiCalls, faults>>
    /\ OpFrame

OpUpdateRecord ==
    /\ op.kind = "publish"
    /\ op.at = "index"
    /\ vectorIndex' = UpdateMetadata(vectorIndex, Namespace(Tenant), op.id, op.flag)
    /\ op' = [op EXCEPT !.at = "row"]
    /\ UNCHANGED <<mirror, opResult, opsStarted, aiInFlight, aiCalls, faults>>
    /\ OpFrame

OpUpdateRow ==
    /\ op.kind = "publish"
    /\ op.at = "row"
    /\ mirror' = UpdateIsPublished(mirror, Tenant, op.id, op.flag)
    /\ op' = NoOp
    /\ opResult' = OpReturned("publish", TRUE, 0, "Published status set")
    /\ UNCHANGED <<vectorIndex, opsStarted, aiInFlight, aiCalls, faults>>
    /\ OpFrame

\* faulty variant: the product is stored as the shop's API delivered it
WithFlagKept(product, isPublished) == product

\* product.isPublished = isPublished
WithFlag(product, isPublished) == [product EXCEPT !.isPublished = isPublished]

\* app.getProductById(productId): the product of the catalog with the id,
\* or null when the shop answers 404
GetProductById(catalog, id) ==
    {catalog[k] : k \in {j \in 1..Len(catalog) : DecString(catalog[j].product_id) = id}}

\* what stops the fetch of the one product: no plugin name, a plugin the
\* registry does not know, init() without configuration, or a response of
\* the shop that is neither OK nor 404 (apiOk false)
FetchByIdError(apiOk) ==
    IF pluginName = "none" THEN "Plugin not found for app ID"
    ELSE IF pluginName \notin Registry THEN "Plugin not found"
    ELSE IF pluginConfig = "absent" THEN "Shopcada plugin configuration not found"
    ELSE IF pluginConfig = "blank" THEN "Plugin not initialized. Call init() first."
    ELSE IF ~apiOk THEN "Failed to fetch product"
    ELSE ""

\* setPublishedStatusWithFetch(productId, appId, isPublished) is called
StartPublishFetch ==
    /\ op.kind = "none"
    /\ opsStarted < MaxOps
    /\ \E id \in OpIds, isPublished \in BOOLEAN :
          op' = [NoOp EXCEPT !.kind = "publishFetch", !.id = id,
                             !.flag = isPublished, !.at = "exists"]
    /\ opsStarted' = opsStarted + 1
    /\ UNCHANGED <<opResult, storeVars, aiInFlight, aiCalls, faults>>
    /\ OpFrame

\* findFirst on (appId, productId) returns: a product the mirror holds has
\* its flag set by setPublishedStatus, whose answer is returned as it is;
\* for any other the plugin is asked
OpExistsReturns ==
    /\ op.kind = "publishFetch"
    /\ op.at = "exists"
    /\ IF \E r \in mirror : r.appId = Tenant /\ r.productId = op.id
       THEN op' = [op EXCEPT !.kind = "publish", !.at = "index",
                             !.via = "publishFetch"]
       ELSE op' = [op EXCEPT !.at = "plugin"]
    /\ UNCHANGED <<opResult, opsStarted, storeVars, aiInFlight, aiCalls, faults>>
    /\ OpFrame

\* get_plugin_name, createApp, init and getProductById: the request fails,
\* the shop has no such product, or the product is handed to
\* upsertSingleProduct with the flag of the call
OpFetchById ==
    /\ op.kind = "publishFetch"
    /\ op.at = "plugin"
    /\ \E apiOk \in BOOLEAN :
          IF FetchByIdError(apiOk) # ""
          THEN /\ op' = NoOp
               /\ opResult' = OpReturned("publishFetch", FALSE, 0,
                                         FetchByIdError(apiOk))
               /\ UNCHANGED <<aiInFlight, aiCalls>>
          ELSE IF GetProductById(shop, op.id) = {}
          THEN /\ op' = NoOp
               /\ opResult' = OpReturned("publishFetch", FALSE, 0,
                                         "not found in external API")
               /\ UNCHANGED <<aiInFlight, aiCalls>>
          ELSE \E found \in GetProductById(shop, op.id) :
                  LET product == WithFlag(found, op.flag)
                      entry   == IF EntryPhase(product) = "done" THEN "index"
                                 ELSE EntryPhase(product)
                  IN  /\ op' = [op EXCEPT !.product = product, !.at = entry,
                                          !.info = StoreInfo(product, Null)]
                      /\ aiInFlight' = aiInFlight + (IF entry = "vision" THEN 1 ELSE 0)
                      /\ aiCalls' = aiCalls + (IF entry = "vision" THEN 1 ELSE 0)
                      /\ UNCHANGED opResult
    /\ UNCHANGED <<opsStarted, storeVars, faults>>
    /\ OpFrame

\* faulty variant: the error of a store leaves every operation
OpFailureRaises(kind) == OpRaised(kind, "store error")

\* what an operation answers when a store call of it fails:
\* upsertSingleProduct logs the error and throws it again, deleteProduct
\* and setPublishedStatus return {success: false, message: error.message}
OpFailure(kind) ==
    IF kind = "upsert" THEN OpRaised(kind, "store error")
    ELSE OpReturned(kind, FALSE, 0, "store error")

\* a store call of the operation fails: the mirror query of processProduct,
\* or the call to the vector index or to the mirror
OpStoreFails ==
    /\ op.kind # "none"
    /\ op.at \in {"exists", "lookup", "index", "row"}
    /\ faults < budget
    /\ faults' = faults + 1
    /\ op' = NoOp
    /\ opResult' = OpFailure(op.kind)
    /\ UNCHANGED <<storeVars, opsStarted, aiInFlight, aiCalls>>
    /\ OpFrame

\* the imports the operations run beside
OpsScenarios ==
    [catalog : {<<ProductA>>, <<ProductA, ProductB>>},
     stores : {EmptyStores, WarmStores(Tenant)}, budget : {1},
     answers : {{AiThrows, AiReturns(<<120>>)}}]

InitOps ==
    /\ pluginName = "shopcada"
    /\ pluginConfig = "set"
    /\ Begin(OpsScenarios)

NextOps ==
    \/ Next
    \/ StartUpsert
    \/ OpLookupReturns
    \/ OpVisionReturns
    \/ OpUpsertRecord
    \/ OpUpsertRow
    \/ StartDelete
    \/ OpDeleteRecord
    \/ OpDeleteRow
    \/ StartPublish
    \/ OpUpdateRecord
    \/ OpUpdateRow
    \/ OpStoreFails

SpecOps == InitOps /\ [][NextOps]_vars

(***************************************************************************)
(* The import job beside the webhook's published-status call that fetches  *)
(* a product the mirror does not hold, and beside deleteProduct, which     *)
(* makes the mirror lose a product again.                                  *)
(***************************************************************************)
NextPublish ==
    \/ Next
    \/ StartPublishFetch
    \/ OpExistsReturns
    \/ OpFetchById
    \/ OpLookupReturns
    \/ OpVisionReturns
    \/ OpUpsertRecord
    \/ OpUpsertRow
    \/ OpUpdateRecord
    \/ OpUpdateRow
    \/ StartDelete
    \/ OpDeleteRecord
    \/ OpDeleteRow
    \/ OpStoreFails

SpecPublish == InitOps /\ [][NextPublish]_vars

(***************************************************************************)
(* The same service on stores that also hold the data of another tenant,   *)
(* whose products have the ids and the first images of the tenant's.       *)
(***************************************************************************)
OtherTenant == 2

\* the description the other tenant's rows carry: "z"
ForeignDescription == <<122>>

\* what an import of the other tenant left: product 1 with image U1 and
\* product 8 with image U2
ForeignEarlier ==
    <<StoreInfo([product_id |-> 1, name |-> <<102>>, description |-> Null,
                 images |-> <<U1>>, isPublished |-> TRUE],
                ForeignDescription),
      StoreInfo([product_id |-> 8, name |-> <<102>>, description |-> Null,
                 images |-> <<U2>>, isPublished |-> FALSE],
                ForeignDescription)>>
ForeignStores ==
    [index |-> UpsertRecords({}, Namespace(OtherTenant), ForeignEarlier),
     rows  |-> {MirrorRow(OtherTenant, ForeignEarlier[k]) :
                   k \in 1..Len(ForeignEarlier)}]

JoinStores(a, b) == [index |-> a.index \cup b.index, rows |-> a.rows \cup b.rows]

TenantsScenarios ==
    [catalog : {<<ProductA>>, <<ProductB>>},
     stores : {ForeignStores, JoinStores(WarmStores(Tenant), ForeignStores)},
     budget : {1},
     answers : {{AiThrows, AiReturns(<<120>>)}}]

InitTenants ==
    /\ pluginName = "shopcada"
    /\ pluginConfig = "set"
    /\ Begin(TenantsScenarios)

SpecTenants == InitTenants /\ [][NextOps]_vars

(***************************************************************************)
(* ShopcadaPlugin.getAllProducts followed page by page: the first page,    *)
(* the remaining pages, the conversion of the raw products; then the       *)
(* import job on the products returned.                                    *)
(***************************************************************************)
\* the page size the shop's API reports in meta.limit
PageLimit == 2

\* raw products of the shop's API; a missing product_id is 0, a missing
\* name or description is Null, published is "true", "false" or "absent"
RawA == [product_id |-> 1, name |-> <<97>>, description |-> <<120>>,
         images |-> <<U1>>, published |-> "true"]
RawC == [product_id |-> 3, name |-> <<99>>, description |-> Null,
         images |-> <<>>, published |-> "absent"]
RawNoName == [product_id |-> 4, name |-> Null, description |-> Null,
              images |-> <<>>, published |-> "true"]
RawNoId == [product_id |-> 0, name |-> <<110>>, description |-> Null,
            images |-> <<>>, published |-> "false"]
RawPool == {RawA, RawC, RawNoName, RawNoId}

\* what a request for a page may meet: a 2xx response with the products, a
\* non-OK response, a 2xx response without a products array, a request
\* that fails
PageStatuses == {"ok", "notOk", "noArray", "rejects"}

Max(a, b) == IF a > b THEN a ELSE b

\* the API serving a catalog of raw products in pages of PageLimit
ApiOf(catalog, statuses) ==
    [count |-> Len(catalog), limit |-> PageLimit,
     pages |-> [k \in 1..Len(statuses) |->
                   [status   |-> statuses[k],
                    products |-> Slice(catalog, (k - 1) * PageLimit, k * PageLimit)]]]

Apis ==
    {ApiOf(catalog, statuses) :
        catalog \in UNION {[1..n -> RawPool] : n \in 0..MaxLen},
        statuses \in UNION {[1..n -> PageStatuses] : n \in 1..CeilDiv(MaxLen, PageLimit)}}

\* the APIs whose pages are those of their catalog
WellPaged(a) == Len(a.pages) = Max(1, CeilDiv(a.count, a.limit))

\* if (!productObj.product_id || !productObj.name) throw
Malformed(raw) == raw.product_id = 0 \/ ~Truthy(raw.name)

\* ShopcadaPlugin.processProduct on a well-formed raw product
ShopcadaProduct(raw) ==
    [product_id  |-> raw.product_id,
     name        |-> raw.name,
     description |-> IF Truthy(raw.description) THEN raw.description ELSE EmptyStr,
     images      |-> raw.images,
     isPublished |-> raw.published = "true"]

\* allProducts.map((product) => this.processProduct(product)): one product
\* that throws makes the whole map throw
ConvertAll(raws) ==
    IF \E k \in 1..Len(raws) : Malformed(raws[k])
    THEN [ok |-> FALSE, products |-> <<>>]
    ELSE [ok |-> TRUE, products |-> [k \in 1..Len(raws) |-> ShopcadaProduct(raws[k])]]

\* the catch block of getAllProducts: every error leaves as "Failed to fetch
\* products: <message>", and getPluginProducts hands it on as it is
FetchThrows(cause) ==
    /\ outcome' = Raised("Failed to fetch products", cause)
    /\ pc' = "done"
    /\ fetches' = fetches + 1
    /\ UNCHANGED <<products, allProducts, totalPages, page>>

\* the rest of the service while getAllProducts takes a step
FetchFrame ==
    /\ UNCHANGED <<worldVars, svcVars, aiVars, httpVars, api, storeVars>>
    /\ UNCHANGED <<i, totalProcessedProducts>>
    /\ UNCHANGED <<batchVars, groupVars, writeVars>>
    /\ UNCHANGED <<chunkLog, aiInFlight, aiCalls, visionAnswer, storeCalls, faults>>

\* the first page: a non-OK response and a response without products array
\* throw, and so does a request that fails
FirstPageFatal(status) == status # "ok"

\* the request of the first page
FetchFirstPage ==
    /\ pc = "start"
    /\ LET first == api.pages[1]
       IN  IF FirstPageFatal(first.status)
           THEN FetchThrows(first.status)
           ELSE /\ allProducts' = first.products
                /\ totalPages' =
                      CeilDiv(IF api.count # 0 THEN api.count
                              ELSE Len(allProducts'),
                              IF api.limit # 0 THEN api.limit ELSE 20)
                /\ page' = 1
                /\ pc' = "pages"
                /\ UNCHANGED <<products, outcome, fetches>>
    /\ FetchFrame

\* a later page: only a request that fails throws
LaterPageFatal(status) == status = "rejects"

\* the request of the next of the remaining pages: a non-OK response is
\* logged and skipped, a response without products array adds nothing
FetchNextPage ==
    /\ pc = "pages"
    /\ page < totalPages
    /\ LET next == api.pages[page + 1]
       IN  IF LaterPageFatal(next.status)
           THEN FetchThrows(next.status)
           ELSE /\ allProducts' = IF next.status = "ok"
                                  THEN allProducts \o next.products
                                  ELSE allProducts
                /\ page' = page + 1
                /\ UNCHANGED <<pc, products, outcome, fetches, totalPages>>
    /\ FetchFrame

\* the pages are fetched: the raw products are converted and returned
ReturnProducts ==
    /\ pc = "pages"
    /\ page >= totalPages
    /\ IF ConvertAll(allProducts).ok
       THEN /\ products' = ConvertAll(allProducts).products
            /\ pc' = "loop"
            /\ fetches' = fetches + 1
            /\ UNCHANGED <<outcome, allProducts, totalPages, page>>
       ELSE FetchThrows("Product must have product_id and name fields")
    /\ FetchFrame

InitFetch ==
    /\ pluginName = "shopcada"
    /\ pluginConfig = "set"
    /\ shop = <<>>
    /\ answers = {AiReturns(<<120>>)}
    /\ budget = 0
    /\ vectorIndex = {}
    /\ mirror = {}
    /\ JobAtStart
    /\ faults = 0
    /\ run = 1
    /\ previous = NoPrevious
    /\ op = NoOp
    /\ opResult = NoOpResult
    /\ opsStarted = 0
    /\ FetchAtStart
    /\ AiAtStart
    /\ HttpAtStart
    /\ tables = NoTables
    /\ api \in {a \in Apis : WellPaged(a)}

NextFetch ==
    \/ FetchFirstPage
    \/ FetchNextPage
    \/ ReturnProducts
    \/ StartBatch
    \/ PrecheckReturns
    \/ FastPath
    \/ StartGroup
    \/ \E k \in 1..MAX_CONCURRENT_API_CALLS : LookupReturns(k)
    \/ \E k \in 1..MAX_CONCURRENT_API_CALLS : VisionReturns(k)
    \/ GroupDone
    \/ FinishEnrichment
    \/ UpsertSubBatch
    \/ UpsertMirrorRow
    \/ ReturnResult

SpecFetch == InitFetch /\ [][NextFetch]_vars

(***************************************************************************)
(* getAIResponse(systemPrompt, query, imageUrls), followed step by step:   *)
(* the shared client, the validation of the image URLs, the primary model  *)
(* under withRetry, the fallback model under withRetry, and the reading of *)
(* the completion.  What the HEAD requests and the completions endpoint    *)
(* answer is chosen freely at each request.                                *)
(***************************************************************************)
\* withRetry(fn, maxRetries = 3, baseDelay = 1000)
MaxRetries == 3

\* the image URLs a caller passes: none (undefined), an empty array, one, two
AskUrls == {NoUrls} \cup {[defined |-> TRUE, urls |-> u] :
                             u \in {<<>>, <<U1>>, <<U1, U2>>}}

\* imageUrls && imageUrls.length > 0
HasUrls(imageUrls) == imageUrls.defined /\ Len(imageUrls.urls) > 0

\* what a HEAD request of validateImageUrls gives: an OK response with an
\* image content type, any other response, or a rejected fetch
HeadAnswers == {"image", "other", "rejects"}

\* what client.chat.completions.create gives: a completion (finish_reason
\* and message.content of its first choice; content Null: no message or no
\* content; choices "none": an empty choices array; choices "missing": a
\* body without choices), an error withRetry retries, or an error whose
\* message holds content_filter, invalid_request or authentication
Completion(choices, finish, content) ==
    [kind |-> "completion", choices |-> choices, finish_reason |-> finish,
     content |-> content]
Completions ==
    {Completion("one", f, c) : f \in {"stop", "content_filter"},
                               c \in {Null, EmptyStr, RawDescription}}
    \cup {Completion("none", "", Null), Completion("missing", "", Null)}
CreateError(retried) == [kind |-> "error", retried |-> retried]
\* the errors told apart by their message: "timeout" and "rate_limit" are
\* retried, the three others are not
ErrorMessages ==
    {"timeout", "rate_limit", "content_filter", "invalid_request", "authentication"}
NotRetried(message) ==
    message \in {"content_filter", "invalid_request", "authentication"}
CreateErrors ==
    {[kind |-> "error", retried |-> ~NotRetried(m), message |-> m] :
        m \in ErrorMessages}
CreateAnswers == Completions \cup CreateErrors

AiGave(text) == [kind |-> "returned", text |-> text]
AiRaised == [kind |-> "raised", text |-> Null]

\* the rest of the service while getAIResponse takes a step
AiFrame ==
    /\ UNCHANGED <<worldVars, svcVars, fetchVars, httpVars, storeVars>>
    /\ UNCHANGED <<jobVars, batchVars, groupVars, writeVars, histVars>>

\* faulty variant: the outer catch throws the error again
CaughtRethrown == AiRaised

\* the outer catch of getAIResponse: "Return fallback description instead
\* of throwing"
Caught == AiGave(EmptyStr)

\* completion.choices[0]?.finish_reason === "content_filter"; reading
\* choices[0] of a body without choices is a TypeError
ReadThrows(completion) == completion.choices = "missing"
ContentFilter(completion) ==
    completion.choices = "one" /\ completion.finish_reason = "content_filter"

\* the code after the models: the content-filter check, then
\* completion.choices[0]?.message?.content ?? "", then the empty check
Conclude(completion) ==
    IF ReadThrows(completion) THEN Caught
    ELSE IF ContentFilter(completion) THEN AiGave(EmptyStr)
    ELSE LET response == OrElse(completion.content, EmptyStr)
         IN  IF ~Truthy(response) THEN AiGave(EmptyStr) ELSE AiGave(response)

\* withRetry after a rejected create: whether it gives up (an error it does
\* not retry, or attempt === maxRetries)
GivesUp(answer, attempt) == ~answer.retried \/ attempt = MaxRetries

\* withRetry(fn, maxRetries = 3, baseDelay = 1000)
BaseDelay == 1000

\* how a withRetry ended: what it returned or threw, after which calls and
\* delays
Ended(how, value, a) ==
    [how |-> how, value |-> value, tries |-> a.tries, delays |-> a.delays]

\* catch (error) { lastError = error as Error; ...
CaughtLast(a, error) == [a EXCEPT !.lastError = error]

\* faulty variant: the delay grows by baseDelay with every attempt
LinearDelay(attempt) == BaseDelay * (attempt + 1)

\* baseDelay * Math.pow(2, attempt)
Delay(attempt) == BaseDelay * 2 ^ attempt

\* one turn of the loop of withRetry, fn being one create that gave answer:
\* a completion is returned; an error is kept in lastError and thrown at
\* once when its message forbids a retry, thrown as lastError when
\* attempt === maxRetries, and followed by sleep(delay) otherwise
WithRetry(a, answer) ==
    LET called == [a EXCEPT !.completion = answer, !.tries = Append(@, answer),
                            !.requests = @ + 1]
        caught == CaughtLast(called, answer)
    IN  IF answer.kind = "completion"
        THEN [called EXCEPT !.ended = Ended("returned", answer, called)]
        ELSE IF ~answer.retried
        THEN [caught EXCEPT !.ended = Ended("threw", answer, caught)]
        ELSE IF a.attempt = MaxRetries
        THEN [caught EXCEPT !.ended = Ended("threw", caught.lastError, caught)]
        ELSE [caught EXCEPT !.attempt = @ + 1,
                            !.delays = Append(@, Delay(a.attempt))]

\* the fallback model's withRetry is entered
EnterFallback(a, at) ==
    [a EXCEPT !.pc = at, !.attempt = 0, !.tries = <<>>, !.delays = <<>>,
              !.lastError = NoCompletion, !.fallbacks = @ + 1]

\* getAIResponse is called: getSharedClient() before the try block throws
\* when no client was built yet and OPENROUTER_API_KEY is not set
AskAI ==
    /\ ask.pc = "idle"
    /\ asks < MaxAsks
    /\ asks' = asks + 1
    /\ \E imageUrls \in AskUrls, keySet \in BOOLEAN :
          IF ~sharedClient /\ ~keySet
          THEN /\ aiResult' = AiRaised
               /\ UNCHANGED <<ask, sharedClient>>
          ELSE /\ sharedClient' = TRUE
               /\ aiResult' = NoAiResult
               /\ ask' = [NoAsk EXCEPT
                            !.pc = IF HasUrls(imageUrls)
                                   THEN "validate" ELSE "primary",
                            !.imageUrls = imageUrls,
                            !.urlIndex = 1]
    /\ AiFrame

\* validateImageUrls: one HEAD request; after the last one, no valid URL is
\* the error "No valid image URLs found", thrown inside the try block
ValidateUrl ==
    /\ ask.pc = "validate"
    /\ \E head \in HeadAnswers :
          LET validUrls == IF head = "image"
                           THEN Append(ask.validUrls, ask.imageUrls.urls[ask.urlIndex])
                           ELSE ask.validUrls
          IN  IF ask.urlIndex < Len(ask.imageUrls.urls)
              THEN /\ ask' = [ask EXCEPT !.urlIndex = @ + 1, !.validUrls = validUrls]
                   /\ UNCHANGED aiResult
              ELSE IF Len(validUrls) = 0
              THEN /\ ask' = [ask EXCEPT !.pc = "idle"]
                   /\ aiResult' = Caught
              ELSE /\ ask' = [ask EXCEPT !.pc = "primary", !.validUrls = validUrls]
                   /\ UNCHANGED aiResult
    /\ UNCHANGED <<sharedClient, asks>>
    /\ AiFrame

\* one create of the primary model under withRetry.  A completion whose
\* content filter triggered sends the call to the fallback model inside the
\* same try block; a body without choices and a withRetry that gives up land
\* in catch (primaryError), which tries the fallback model
TryPrimary ==
    /\ ask.pc = "primary"
    /\ \E answer \in CreateAnswers :
          IF answer.kind = "completion"
          THEN IF ReadThrows(answer)
               THEN /\ ask' = EnterFallback(WithRetry(ask, answer), "fallback")
                    /\ UNCHANGED aiResult
               ELSE IF ContentFilter(answer)
               THEN /\ ask' = EnterFallback(WithRetry(ask, answer), "filtered")
                    /\ UNCHANGED aiResult
               ELSE /\ ask' = [WithRetry(ask, answer) EXCEPT !.pc = "idle"]
                    /\ aiResult' = Conclude(answer)
          ELSE /\ ask' = IF GivesUp(answer, ask.attempt)
                         THEN EnterFallback(WithRetry(ask, answer), "fallback")
                         ELSE WithRetry(ask, answer)
               /\ UNCHANGED aiResult
    /\ UNCHANGED <<sharedClient, asks>>
    /\ AiFrame

\* one create of the fallback model after the primary's content filter:
\* still inside the inner try, so a withRetry that gives up lands in
\* catch (primaryError) and the fallback model is tried once more
TryFiltered ==
    /\ ask.pc = "filtered"
    /\ \E answer \in CreateAnswers :
          IF answer.kind = "completion"
          THEN /\ ask' = [WithRetry(ask, answer) EXCEPT !.pc = "idle"]
               /\ aiResult' = Conclude(answer)
          ELSE /\ ask' = IF GivesUp(answer, ask.attempt)
                         THEN EnterFallback(WithRetry(ask, answer), "fallback")
                         ELSE WithRetry(ask, answer)
               /\ UNCHANGED aiResult
    /\ UNCHANGED <<sharedClient, asks>>
    /\ AiFrame

\* one create of the fallback model in catch (primaryError): a withRetry
\* that gives up throws into the outer catch
TryFallback ==
    /\ ask.pc = "fallback"
    /\ \E answer \in CreateAnswers :
          IF answer.kind = "completion"
          THEN /\ ask' = [WithRetry(ask, answer) EXCEPT !.pc = "idle"]
               /\ aiResult' = Conclude(answer)
          ELSE IF GivesUp(answer, ask.attempt)
          THEN /\ ask' = [WithRetry(ask, answer) EXCEPT !.pc = "idle"]
               /\ aiResult' = Caught
          ELSE /\ ask' = WithRetry(ask, answer)
               /\ UNCHANGED aiResult
    /\ UNCHANGED <<sharedClient, asks>>
    /\ AiFrame

InitAI ==
    /\ pluginName = "shopcada"
    /\ pluginConfig = "set"
    /\ Begin([catalog : {<<>>}, stores : {EmptyStores}, budget : {0},
              answers : {{AiThrows, AiReturns(EmptyStr)}}])

NextAI ==
    \/ AskAI
    \/ ValidateUrl
    \/ TryPrimary
    \/ TryFiltered
    \/ TryFallback

SpecAI == InitAI /\ [][NextAI]_vars

(***************************************************************************)
(* POST /api/apps/[appId]/import: the checks of the handler in their       *)
(* order, and the import job it starts.  The tables are those of two apps  *)
(* and obey the foreign keys of the schema: an api_key row and a           *)
(* plugin_config_shopcada row belong to an app that exists.                *)
(***************************************************************************)
AppIds == {Tenant, OtherTenant}

\* API keys "k" and "q"; NoKey: the app has no active key
KeyK == <<107>>
KeyQ == <<113>>
NoKey == Null

\* "Bearer "
Bearer == <<66, 101, 97, 114, 101, 114, 32>>

\* the [appId] segments of the requests: "1", "2", "3", "0", "-1", "x", "1x"
AppIdSegments ==
    {<<49>>, <<50>>, <<51>>, <<48>>, <<45, 49>>, <<120>>, <<49, 120>>}

\* the Authorization headers of the requests: none, "Bearer k", "Bearer q",
\* "Bearer ", "k", "bearer k"
AuthorizationHeaders ==
    {Null, Bearer \o KeyK, Bearer \o KeyQ, Bearer, KeyK,
     <<98, 101, 97, 114, 101, 114, 32>> \o KeyK}

IsDigit(c) == c \in 48..57

RECURSIVE DigitsValue(_, _)
\* the value of the longest prefix of decimal digits of s, after acc
DigitsValue(s, acc) ==
    IF Len(s) = 0 \/ ~IsDigit(s[1]) THEN acc
    ELSE DigitsValue(Tail(s), 10 * acc + (s[1] - 48))

\* parseInt(string): leading white space, an optional sign, then the longest
\* prefix of decimal digits; NaN when there is no digit.  What follows the
\* digits is ignored.
ParseInt(string) ==
    LET t == TrimStart(string)
        signed == Len(t) > 0 /\ t[1] \in {43, 45}
        digits == IF signed THEN Tail(t) ELSE t
    IN  IF Len(digits) = 0 \/ ~IsDigit(digits[1])
        THEN [nan |-> TRUE, value |-> 0]
        ELSE [nan |-> FALSE,
              value |-> IF signed /\ t[1] = 45 THEN 0 - DigitsValue(digits, 0)
                        ELSE DigitsValue(digits, 0)]

\* isNaN(parsedAppId) || parsedAppId <= 0
InvalidAppId(parsed) == parsed.nan \/ parsed.value <= 0

\* the api_key table has at most one row per app (app_id is unique): the
\* row of an app, or NoRow
NoRow == [apiKey |-> NoKey, isActive |-> FALSE]
ActiveRow(apiKey) == [apiKey |-> apiKey, isActive |-> TRUE]

\* getApiKey(appId): the key of the app's active row, or null
GetApiKey(app) ==
    IF app \in AppIds /\ tables.keys[app].isActive
    THEN tables.keys[app].apiKey ELSE NoKey

\* verifyApiKey(request, appId): the header starts with "Bearer ", the app
\* has an active key that is not empty, and the rest of the header is that key
VerifyApiKey(authorization, app) ==
    /\ authorization # Null
    /\ Len(authorization) >= Len(Bearer)
    /\ SubSeq(authorization, 1, Len(Bearer)) = Bearer
    /\ Truthy(GetApiKey(app))
    /\ GetApiKey(app) = SubSeq(authorization, Len(Bearer) + 1, Len(authorization))

\* the app row: its pluginName ("null" for none), or "absent"
AppRow(app) == IF app \in AppIds THEN tables.apps[app] ELSE "absent"

\* !config?.apiHostname || !config?.apiKey
ConfigMissing(app) == tables.configs[app] # "set"

Reply(status, error) == [status |-> status, error |-> error]

\* the checks of the handler in their order: the reply of the first that
\* fails, or NoReply when the import may start.  failing is the query that
\* rejects (1: the api_key query, 2: the app query, 3: the configuration
\* query, 0: none), which the outer catch answers with 500.
Checks(req, failing) ==
    LET parsed == ParseInt(req.appId)
    IN  IF InvalidAppId(parsed) THEN Reply(400, "Invalid app ID")
        ELSE IF failing = 1 /\ req.authorization # Null
                /\ Len(req.authorization) >= Len(Bearer)
                /\ SubSeq(req.authorization, 1, Len(Bearer)) = Bearer
        THEN Reply(500, "Internal server error")
        ELSE IF ~VerifyApiKey(req.authorization, parsed.value)
        THEN Reply(401, "Invalid API key")
        ELSE IF failing = 2 THEN Reply(500, "Internal server error")
        ELSE IF AppRow(parsed.value) = "absent" THEN Reply(404, "App not found")
        ELSE IF AppRow(parsed.value) = "shopcada" /\ failing = 3
        THEN Reply(500, "Internal server error")
        ELSE IF AppRow(parsed.value) = "shopcada" /\ ConfigMissing(parsed.value)
        THEN Reply(400, "App configuration missing")
        ELSE NoReply

\* the reply to a request whose import was started: the background route
\* answers at once; the awaiting route answers when the job has ended
Processing == Reply(200, "processing")
Pending == Reply(0, "pending")

\* POST: the checks, and for a request that passes them the call of
\* processAndStoreProducts(parsedAppId)
Post ==
    /\ posts < MaxPosts
    /\ reply # Pending
    /\ posts' = posts + 1
    /\ \E appId \in AppIdSegments, authorization \in AuthorizationHeaders,
          failing \in 0..3 :
          LET req == [appId |-> appId, authorization |-> authorization]
          IN  /\ request' = req
              /\ IF Checks(req, failing) # NoReply
                 THEN /\ reply' = Checks(req, failing)
                      /\ UNCHANGED started
                 ELSE /\ started' = Append(started, ParseInt(appId).value)
                      /\ reply' = IF tables.route = "background"
                                     \/ ParseInt(appId).value # Tenant
                                     \/ Tenant \in {started[k] : k \in 1..Len(started)}
                                  THEN Processing ELSE Pending
    /\ UNCHANGED <<tables, keyCall, worldVars, svcVars, fetchVars, aiVars, storeVars>>
    /\ UNCHANGED <<jobVars, batchVars, groupVars, writeVars, histVars>>

\* the awaiting route answers: NextResponse.json(result) for a job that
\* returned; for a job that raised, 400 when the message holds
\* "configuration not found" or "Failed to fetch products", else 500
AfterJob(result) ==
    IF result.kind = "returned" THEN Reply(200, result.message)
    ELSE IF \/ result.cause = "Shopcada plugin configuration not found"
            \/ "Failed to fetch products" \in {result.message, result.cause}
    THEN Reply(400, "API Configuration Issue")
    ELSE Reply(500, "Import failed")

Respond ==
    /\ reply = Pending
    /\ pc = "done"
    /\ reply' = AfterJob(outcome)
    /\ UNCHANGED <<tables, request, started, posts, keyCall>>
    /\ UNCHANGED <<worldVars, svcVars, fetchVars, aiVars, storeVars>>
    /\ UNCHANGED <<jobVars, batchVars, groupVars, writeVars, histVars>>

\* processAndStoreProducts runs once the endpoint has called it for the
\* tenant; the tenant's first job is the one followed
ImportJob ==
    /\ Tenant \in {started[k] : k \in 1..Len(started)}
    /\ Next

\* the tables: every key and every configuration belongs to an app
ForeignKeys(t) ==
    \A a \in AppIds :
        t.apps[a] = "absent" => (t.keys[a] = NoRow /\ t.configs[a] = "absent")

\* the tenant is any app; the other app, when it exists, is a configured
\* shopcada app.  An app of another plugin has no shopcada configuration.
Tables ==
    {t \in [apps : [AppIds -> {"absent", "null", "shopcada"}],
            keys : [AppIds -> {NoRow, ActiveRow(EmptyStr), ActiveRow(KeyK),
                               ActiveRow(KeyQ)}],
            configs : [AppIds -> {"absent", "blank", "set"}],
            route : {"awaits", "background"}] :
        /\ ForeignKeys(t)
        /\ \A a \in AppIds : t.apps[a] = "null" => t.configs[a] = "absent"
        /\ t.keys[Tenant] # ActiveRow(KeyQ)
        /\ t.keys[OtherTenant] # ActiveRow(EmptyStr)
        /\ t.apps[OtherTenant] = "shopcada" => t.configs[OtherTenant] = "set"
        /\ t.apps[OtherTenant] # "null"}

InitImport ==
    /\ tables \in Tables
    /\ pluginName = (IF tables.apps[Tenant] \in {"absent", "null"} THEN "none"
                     ELSE tables.apps[Tenant])
    /\ pluginConfig = tables.configs[Tenant]
    /\ BeginService([catalog : {<<ProductA>>},
                     stores : {WarmStores(Tenant)}, budget : {1},
                     answers : {{AiThrows, AiReturns(<<120>>)}}])

NextImport ==
    \/ Post
    \/ ImportJob
    \/ Respond

SpecImport == InitImport /\ [][NextImport]_vars

(***************************************************************************)
(* Properties of the import job.                                           *)
(***************************************************************************)
Returned == outcome.kind = "returned"
RaisedNow == outcome.kind = "raised"
Enriching == pc \in {"precheck", "enrich", "group"}
Storing == pc \in {"pinecone", "db"}

\* the elements of a sequence
Range(seq) == {seq[k] : k \in 1..Len(seq)}

\* the products of chunk n, as the log entry delimits them
ChunkProducts(n) ==
    SubSeq(products, chunkLog[n].first + 1, chunkLog[n].first + chunkLog[n].size)

\* C1: the fetched list is cut, in catalog order, into consecutive chunks of
\* 100 products, only the last of which may be smaller, so that every
\* product is in exactly one chunk; a catalog of 101 products gives chunks
\* of 100 and 1, two calls of batchInsertProducts in that order, and, when
\* nothing fails, imported_count = 101.
C1_Chunking ==
    /\ \A n \in 1..Len(chunkLog) :
          /\ chunkLog[n].first = 100 * (n - 1)
          /\ chunkLog[n].size = Min(100, Len(products) - 100 * (n - 1))
          /\ chunkLog[n].size >= 1
    /\ Enriching /\ pc # "precheck" =>
          /\ Len(productsNeedingImageProcessing) + Len(productsWithCachedImages)
                = chunkLog[Len(chunkLog)].size
          /\ Range(productsNeedingImageProcessing) \cup Range(productsWithCachedImages)
                = Range(ChunkProducts(Len(chunkLog)))
    /\ Returned => Len(chunkLog) = CeilDiv(Len(products), 100)
    /\ Returned /\ faults = 0 => outcome.imported_count = Len(products)
    /\ Returned /\ Len(products) = 101 =>
          /\ Len(chunkLog) = 2
          /\ chunkLog[1].size = 100
          /\ chunkLog[2].size = 1
          /\ faults = 0 => storeCalls = <<1, 2>> /\ outcome.imported_count = 101

C1_Witness ==
    /\ Returned
    /\ Len(products) = 101
    /\ storeCalls = <<1, 2>>
    /\ outcome.imported_count = 101

\* C2: the chunks are processed and stored strictly in order: while chunk n
\* is enriched (pre-check query, fast path, vision calls) the store of every
\* earlier chunk has finished, well or not; while a chunk is stored nothing
\* is enriched; no chunk is processed twice and none is stored twice.
C2_ChunksInOrder ==
    /\ \A n \in 1..Len(chunkLog) : chunkLog[n].batchNumber = n
    /\ \A n \in 1..(Len(chunkLog) - 1) : chunkLog[n].stored \in {"ok", "failed", "none"}
    /\ \A a, b \in 1..Len(storeCalls) : a < b => storeCalls[a] < storeCalls[b]
    /\ \A a \in 1..Len(storeCalls) : storeCalls[a] <= Len(chunkLog)
    /\ Enriching =>
          /\ chunkLog[Len(chunkLog)].stored = "open"
          /\ Len(chunkLog) \notin Range(storeCalls)
    /\ Storing =>
          /\ storeCalls[Len(storeCalls)] = Len(chunkLog)
          /\ aiInFlight = 0
          /\ phase = <<>>

C2_Witness ==
    /\ pc = "group"
    /\ Len(chunkLog) = 2
    /\ chunkLog[1].stored = "failed"
    /\ aiInFlight = 1

\* C3: at most 10 calls of the vision service are in flight; the slow-path
\* products are taken in consecutive groups of at most 10, and every call
\* of a group has settled before a call of the next group is issued.
C3_BoundedConcurrency ==
    /\ aiInFlight <= 10
    /\ aiInFlight = CountOf(phase, "vision")
    /\ pc # "group" => aiInFlight = 0
    /\ pc = "group" =>
          /\ groupStart % 10 = 0
          /\ Len(phase) = Min(10, Len(productsNeedingImageProcessing) - groupStart)
          /\ Len(phase) >= 1

C3_Witness ==
    /\ pc = "group"
    /\ groupStart = 10
    /\ aiCalls = 11
    /\ aiInFlight = 1

\* the ids of the products of chunk n are distinct
DistinctIds(n) ==
    \A a, b \in 1..chunkLog[n].size :
        a # b => ChunkProducts(n)[a].product_id # ChunkProducts(n)[b].product_id

ProductId(n, a) == DecString(ChunkProducts(n)[a].product_id)

\* the case of C4: an enriched chunk of 3 products, of which the vision call
\* of the second, and no other, threw
SecondThrew(n) ==
    /\ chunkLog[n].enriched
    /\ chunkLog[n].size = 3
    /\ DistinctIds(n)
    /\ chunkLog[n].dropped = 0
    /\ chunkLog[n].threw = {ProductId(n, 2)}

\* C4 as stated: in a chunk of 3 products where the vision call of product
\* 2 throws, the chunk's output holds the records of products 1 and 3 only.
C4_AsStated ==
    \A n \in 1..Len(chunkLog) :
        SecondThrew(n) => Range(chunkLog[n].ids) = {ProductId(n, 1), ProductId(n, 3)}

\* C4, amended: a vision call that throws removes nothing: the output of an
\* enriched chunk holds a record for every product but those whose
\* processProduct itself threw (its mirror query failed); so the chunk of 3
\* whose second vision call threw yields one record for each of products 1,
\* 2 and 3 (fast-path records first) and is handed to batchInsertProducts.
C4_VisionErrorKeepsProduct ==
    \A n \in 1..Len(chunkLog) :
        chunkLog[n].enriched =>
            /\ Len(chunkLog[n].ids) = chunkLog[n].size - chunkLog[n].dropped
            /\ chunkLog[n].threw \subseteq Range(chunkLog[n].ids)
            /\ Len(chunkLog[n].ids) > 0 => n \in Range(storeCalls)
            /\ SecondThrew(n) =>
                  Range(chunkLog[n].ids) = {ProductId(n, 1), ProductId(n, 2), ProductId(n, 3)}

C4_Witness ==
    \E n \in 1..Len(chunkLog) :
        /\ SecondThrew(n)
        /\ chunkLog[n].stored = "ok"
        /\ Len(chunkLog[n].ids) = 3

RECURSIVE SumStored(_)
SumStored(n) ==
    IF n = 0 THEN 0
    ELSE SumStored(n - 1)
            + (IF chunkLog[n].stored = "ok" THEN Len(chunkLog[n].ids) ELSE 0)

\* every record of chunk n is in the tenant's namespace and in the mirror
Durable(n) ==
    \A id \in Range(chunkLog[n].ids) :
        /\ \E r \in vectorIndex : r.namespace = Namespace(Tenant) /\ r.id = id
        /\ \E r \in mirror : r.appId = Tenant /\ r.productId = id

\* the store of chunk k failed and k is not the last chunk
FailedBeforeLast(k) ==
    /\ k < Len(chunkLog)
    /\ chunkLog[k].stored = "failed"

\* C6 as stated: when the store of chunk k (not the last) fails, the
\* returned imported_count is the sum of the sizes of the chunks stored
\* strictly before k.
C6_AsStated ==
    \A k \in 1..Len(chunkLog) :
        (Returned /\ FailedBeforeLast(k)) => outcome.imported_count = SumStored(k - 1)

\* C6, amended: when the store of a chunk fails, every chunk whose store
\* succeeded, before or after it, is in the vector index and in the mirror,
\* and the returned imported_count is the sum of the record counts of all
\* the chunks whose store succeeded.
C6_ChunkDurability ==
    /\ \A n \in 1..Len(chunkLog) : chunkLog[n].stored = "ok" => Durable(n)
    /\ pc = "loop" => totalProcessedProducts = SumStored(Len(chunkLog))
    /\ Returned => outcome.imported_count = SumStored(Len(chunkLog))

C6_Witness ==
    /\ Returned
    /\ Len(chunkLog) = 2
    /\ chunkLog[1].stored = "failed"
    /\ chunkLog[2].stored = "ok"
    /\ outcome.imported_count = 1

\* C7 as stated: a failed store of chunk k does not stop the job: when the
\* job is over every later chunk has been enriched and, if it has a record,
\* handed to batchInsertProducts; chunk k is handed over once.
C7_AsStated ==
    \A k \in 1..Len(chunkLog) :
        (pc = "done" /\ chunkLog[k].stored = "failed") =>
            /\ Len(chunkLog) = CeilDiv(Len(products), 100)
            /\ \A n \in (k + 1)..Len(chunkLog) :
                  /\ chunkLog[n].enriched
                  /\ Len(chunkLog[n].ids) > 0 => n \in Range(storeCalls)
            /\ Cardinality({a \in 1..Len(storeCalls) : storeCalls[a] = k}) = 1

\* the messages of the errors of the plugin lookup and of the catalog fetch
FetchFailureMessages ==
    {"Failed to get products for app",
     "Plugin not initialized. Call init() first.",
     "Failed to fetch products"}

FetchFailed == RaisedNow /\ outcome.message \in FetchFailureMessages

\* the stores as they were before the job
StoresUntouched ==
    [index |-> vectorIndex, rows |-> mirror] \in {EmptyStores, WarmStores(Tenant)}

\* no plugin for the tenant, an unknown plugin, or a configuration with
\* which init() or getAllProducts cannot work
BadConfiguration ==
    \/ pluginName = "none"
    \/ pluginName \notin Registry
    \/ pluginConfig # "set"

\* C8 as stated: once the catalog is fetched the job returns a result:
\* imported_count is the sum of the record counts of the chunks stored,
\* status is 200 exactly when imported_count > 0, and 500 is returned, not
\* raised, when nothing was imported.
C8_AsStated ==
    (pc = "done" /\ ~FetchFailed) =>
        /\ Returned
        /\ outcome.imported_count = SumStored(Len(chunkLog))
        /\ outcome.status = 200 <=> outcome.imported_count > 0
        /\ outcome.imported_count = 0 => outcome.status = 500

\* C9: a failure of the configuration or of the catalog fetch ends the job:
\* processAndStoreProducts raises an error with a message that tells the
\* failure, nothing was enriched, nothing was written to the vector index
\* or to the mirror, and the fetch was tried once.
C9_FetchFailureIsFatal ==
    /\ FetchFailed =>
          /\ outcome.message # ""
          /\ outcome.message = "Failed to get products for app" => outcome.cause # ""
          /\ chunkLog = <<>>
          /\ aiCalls = 0
          /\ storeCalls = <<>>
          /\ StoresUntouched
          /\ fetches = 1
    /\ (pc = "done" /\ BadConfiguration) => FetchFailed
    /\ fetches <= 1
    /\ (pc # "start" /\ ~FetchFailed) => ~BadConfiguration

C9_Witness ==
    /\ FetchFailed
    /\ outcome.cause = "Shopcada plugin configuration not found"
    /\ shop # <<>>
    /\ fetches = 1

\* C10 as stated: once the catalog is fetched processAndStoreProducts does
\* not raise: the only errors it raises are those of the configuration and
\* of the catalog fetch.
C10_AsStated == RaisedNow => FetchFailed

\* the records the job is handing to a store: the sub-batch about to be
\* upserted to the vector index, the record about to be upserted to the mirror
HandedToWrite ==
    IF pc = "pinecone" THEN Range(SubBatch)
    ELSE IF pc = "db" THEN {processedProducts[rowIndex + 1]}
    ELSE {}

\* the records the two entry points have returned in the current chunk
Produced ==
    Range(results) \cup {groupResults[k][1] : k \in {j \in 1..Len(groupResults) :
                                                      Len(groupResults[j]) = 1}}

\* C13: in every record returned by processProduct or processProductWithCache
\* and handed to a write, text_checksum is the checksum of the text of the
\* same record, and image_url_checksum is the checksum of first_image_url
\* when the product has a first image (a non-empty URL) and absent when not;
\* first_image_url is the first image of the product the record is of.
C13_ChecksumsOfRecord ==
    \A r \in HandedToWrite \cup Produced :
        /\ r.text_checksum = generateChecksum(r.text)
        /\ r.image_url_checksum =
              IF Truthy(r.first_image_url)
              THEN generateChecksum(r.first_image_url) ELSE Null
        /\ \E p \in Range(products) :
              /\ DecString(p.product_id) = r.product_id
              /\ r.first_image_url = FirstImageUrl(p)

C13_Witness ==
    /\ pc = "db"
    /\ \E r \in HandedToWrite :
          /\ Truthy(r.image_description)
          /\ r.image_url_checksum = generateChecksum(U2)
    /\ \E r \in Range(processedProducts) : r.image_url_checksum = Null

\* the mirror upsert of record number rowIndex of the chunk has succeeded
LastUpserted == processedProducts[rowIndex]
MirrorUpsertDone ==
    /\ rowIndex >= 1
    /\ chunkLog # <<>>
    /\ chunkLog[Len(chunkLog)].rows = rowIndex

\* C14 as stated: after the mirror upsert of a record the row of its
\* (tenant, product id) holds the values of the record in every column:
\* productName, fullText, imageUrls, imageDescription, isPublished, also
\* when the record has no image description and the row had one.
C14_AsStated ==
    MirrorUpsertDone =>
        \A r \in mirror :
            (r.appId = Tenant /\ r.productId = LastUpserted.product_id) =>
                r = MirrorRow(Tenant, LastUpserted)

\* C16: batchInsertProducts sends the records of the chunk to the tenant's
\* namespace in consecutive sub-batches of at most 50; when the upsert of a
\* sub-batch fails the error reaches the caller, no later sub-batch is sent
\* and no row of the chunk is upserted to the mirror; the mirror upserts
\* begin only after the last sub-batch.
C16_SubBatchFailureAborts ==
    /\ \A n \in 1..Len(chunkLog) :
          /\ \A b \in 1..Len(chunkLog[n].subBatches) :
                /\ chunkLog[n].subBatches[b] =
                      Min(50, Len(chunkLog[n].ids) - 50 * (b - 1))
                /\ chunkLog[n].subBatches[b] >= 1
          /\ chunkLog[n].failedAt = "pinecone" =>
                /\ chunkLog[n].stored = "failed"
                /\ chunkLog[n].rows = 0
                /\ 50 * Len(chunkLog[n].subBatches) < Len(chunkLog[n].ids)
          /\ chunkLog[n].rows > 0 =>
                50 * Len(chunkLog[n].subBatches) >= Len(chunkLog[n].ids)
    /\ pc = "pinecone" => rowIndex = 0 /\ chunkLog[Len(chunkLog)].rows = 0
    /\ pc = "db" => upsertStart >= Len(processedProducts)

C16_Witness ==
    \E n \in 1..Len(chunkLog) :
        /\ chunkLog[n].failedAt = "pinecone"
        /\ Len(chunkLog[n].ids) = 100
        /\ chunkLog[n].subBatches = <<50>>
        /\ chunkLog[n].rows = 0
        /\ pc = "loop"

\* C17 as stated: when the mirror upsert of one record of a chunk fails, the
\* other records of the chunk are still upserted to the mirror.
C17_AsStated ==
    \A n \in 1..Len(chunkLog) :
        chunkLog[n].failedAt = "db" => chunkLog[n].rows >= Len(chunkLog[n].ids) - 1

\* the records of chunk n an observer finds in the tenant's namespace
VisibleIds(n) ==
    {id \in Range(chunkLog[n].ids) :
        \E r \in vectorIndex : r.namespace = Namespace(Tenant) /\ r.id = id}

\* C18 as stated: in every state each chunk has all of its records or none
\* of them in the tenant's namespace, and no record of a chunk is there
\* before the records of the chunk before it.
C18_AsStated ==
    \A n \in 1..Len(chunkLog) :
        /\ VisibleIds(n) \in {{}, Range(chunkLog[n].ids)}
        /\ (n > 1 /\ VisibleIds(n) # {}) =>
              VisibleIds(n - 1) = Range(chunkLog[n - 1].ids)

\* the mirror rows of the tenant with the first-image checksum of a product
RowsOfImage(product) ==
    RowsWithImage(mirror, Tenant, {generateChecksum(FirstImageUrl(product))})

\* C11 as stated: a product whose first-image checksum is that of a mirror
\* row of the tenant with a non-null image description is not sent to the
\* vision service.
C11_AsStated ==
    pc \in {"enrich", "group"} =>
        \A k \in 1..Len(productsNeedingImageProcessing) :
            \A r \in RowsOfImage(productsNeedingImageProcessing[k]) :
                r.imageDescription = Null

\* C11, amended: a product whose first-image checksum is that of a mirror
\* row of the tenant with a non-empty image description goes through
\* processProductWithCache, not to the vision service, and the image
\* description of its record is exactly the description of such a row; a
\* row whose description is null or the empty string is no cache entry.
C11_CacheHitUsesCachedValue ==
    pc \in {"enrich", "group"} =>
        /\ \A k \in 1..Len(productsNeedingImageProcessing) :
              \A r \in RowsOfImage(productsNeedingImageProcessing[k]) :
                  ~Truthy(r.imageDescription)
        /\ \A j \in 1..fastIndex :
              Truthy(FirstImageUrl(productsWithCachedImages[j])) =>
                  /\ Truthy(results[j].image_description)
                  /\ results[j].image_description =
                        existingDescriptions[results[j].image_url_checksum]
                  /\ \E r \in RowsOfImage(productsWithCachedImages[j]) :
                        r.imageDescription = results[j].image_description
        /\ \A j \in 1..fastIndex :
              results[j].product_id = DecString(productsWithCachedImages[j].product_id)

C11_Witness ==
    /\ pc = "enrich"
    /\ fastIndex >= 1
    /\ productsWithCachedImages[1] = ProductA
    /\ results[1].image_description = FormatDescription(RawDescription)
    /\ aiCalls = 0

\* product id and text checksum of each record
ChecksumsById(records) == {<<r.product_id, r.text_checksum>> : r \in Range(records)}

\* the chunk of the re-run has been enriched: its records are processedProducts
RerunEnriched ==
    /\ run = 2
    /\ Len(chunkLog) = 1
    /\ chunkLog[1].enriched

PreviousDescribedAll ==
    /\ Len(previous.log) = 1
    /\ previous.log[1].stored = "ok"
    /\ previous.log[1].dropped = 0
    /\ \A r \in Range(previous.records) :
          Truthy(r.first_image_url) => Truthy(r.image_description)
    /\ \A r, q \in Range(previous.records) :
          r.first_image_url = q.first_image_url =>
              r.image_description = q.image_description

Addressed(r, id) == r.appId = Tenant /\ r.productId = id
AddressedRecord(r, id) == r.namespace = Namespace(Tenant) /\ r.id = id

C19_DeleteReturns ==
    [][(op.kind = "delete" /\ op' # op) =>
         /\ (op.at = "index" /\ op'.kind = "delete") =>
               /\ op'.at = "row"
               /\ ~\E r \in vectorIndex' : AddressedRecord(r, op.id)
         /\ op'.kind # "delete" =>
               /\ op' = NoOp
               /\ opResult'.kind = "returned"
               /\ opResult'.of = "delete"
               /\ opResult'.success =>
                     /\ op.at = "row"
                     /\ ~\E r \in mirror' : Addressed(r, op.id)
                     /\ pc' = "start" =>
                           ~\E r \in vectorIndex' : AddressedRecord(r, op.id)
               /\ ~opResult'.success =>
                     /\ opResult'.message # ""
                     /\ faults' = faults + 1
      ]_vars

\* deleteProduct of product 8 has returned success: the product is in
\* neither store, the other products of the earlier import are
C19_Witness ==
    /\ op = NoOp
    /\ opResult.of = "delete" /\ opResult.success
    /\ ~\E r \in mirror : Addressed(r, DecString(8))
    /\ ~\E r \in vectorIndex : AddressedRecord(r, DecString(8))
    /\ \E r \in mirror : Addressed(r, DecString(9))
    /\ \E r \in vectorIndex : AddressedRecord(r, DecString(9))

\* a store entry with its publish flag put aside
Flagless(r) == [r EXCEPT !.isPublished = FALSE]

\* the entries after are the entries before, but for the publish flag of
\* those that hit
OnlyFlagChanged(before, after, hit(_), flag) ==
    /\ \A r \in before : IF hit(r) THEN [r EXCEPT !.isPublished = flag] \in after
                         ELSE r \in after
    /\ \A r \in after : \E b \in before :
          /\ Flagless(r) = Flagless(b)
          /\ r = b \/ hit(b)
    /\ Cardinality(after) = Cardinality(before)

C28_FastBeforeSlow ==
    [][aiCalls' > aiCalls =>
          /\ pc \in {"enrich", "group"}
          /\ fastIndex = Len(productsWithCachedImages)
          /\ Len(results) >= Len(productsWithCachedImages)
          /\ \A k \in 1..Len(productsWithCachedImages) :
                results[k] = processProductWithCache(productsWithCachedImages[k],
                                                     existingDescriptions)
      ]_vars

\* a vision call is in flight in a chunk that has a product of each path
C28_Witness ==
    /\ pc = "group"
    /\ aiInFlight > 0
    /\ Len(productsWithCachedImages) > 0
    /\ Len(results) = Len(productsWithCachedImages)

\* the fast path of the claim: no first image, or a non-empty description
\* prefetched for the checksum of the first image
OnFastPath(product) ==
    \/ ~Truthy(FirstImageUrl(product))
    \/ /\ generateChecksum(FirstImageUrl(product)) \in DOMAIN existingDescriptions
       /\ Truthy(existingDescriptions[generateChecksum(FirstImageUrl(product))])

\* the chunk is split
Split == pc \in {"enrich", "group"}

\* the split is the one of the claim
SplitByPath ==
    Split =>
        /\ productsWithCachedImages = SelectSeq(Batch, LAMBDA p : OnFastPath(p))
        /\ productsNeedingImageProcessing = SelectSeq(Batch, LAMBDA p : ~OnFastPath(p))
        /\ Len(productsWithCachedImages) + Len(productsNeedingImageProcessing)
              = Len(Batch)

\* C29: once a chunk is split, its fast-path products are exactly those
\* with no image or with a non-empty prefetched description, its slow-path
\* products are all the others, each product on one path; and a step of the
\* fast path changes nothing but the chunk's results: no vision call, no
\* query, no store.
C29_OnePathEach ==
    [][/\ (Split' /\ ~Split) => SplitByPath'
       /\ (Split' /\ Split) =>
             UNCHANGED <<products, i, existingDescriptions,
                         productsWithCachedImages, productsNeedingImageProcessing>>
       /\ fastIndex' = fastIndex + 1 =>
             /\ results' = Append(results,
                    processProductWithCache(productsWithCachedImages[fastIndex + 1],
                                            existingDescriptions))
             /\ UNCHANGED <<aiCalls, aiInFlight, phase, faults, fetches,
                            storeVars, storeCalls>>
      ]_vars

\* a chunk split into a product without image, a product whose image has a
\* prefetched description and a product that needs the vision service, the
\* fast path over
C29_Witness ==
    /\ pc = "enrich"
    /\ Len(productsNeedingImageProcessing) > 0
    /\ \E k \in 1..Len(productsWithCachedImages) :
          ~Truthy(FirstImageUrl(productsWithCachedImages[k]))
    /\ \E k \in 1..Len(productsWithCachedImages) :
          Truthy(FirstImageUrl(productsWithCachedImages[k]))
    /\ fastIndex = Len(productsWithCachedImages)

\* the last chunk of the history
LastChunk == chunkLog[Len(chunkLog)]

\* C30: when a chunk's enrichment ends with at least one record, the next
\* step of the job is the write of these records, and the stores change only
\* for such a chunk, before the next chunk starts; when it ends with no
\* record, no store is called and the loop moves on.
C30_PersistAtOnce ==
    [][/\ (Len(chunkLog) > 0 /\ Len(chunkLog') = Len(chunkLog)
             /\ LastChunk.enriched' /\ ~LastChunk.enriched) =>
             IF Len(results) > 0
             THEN /\ pc' = "pinecone"
                  /\ processedProducts' = results
                  /\ storeCalls' = Append(storeCalls, BatchNumber)
                  /\ i' = i
             ELSE /\ pc' = "loop"
                  /\ LastChunk.stored' = "none"
                  /\ UNCHANGED <<storeVars, storeCalls>>
       /\ storeVars' # storeVars =>
             /\ Len(chunkLog) > 0
             /\ LastChunk.enriched
             /\ LastChunk.ids # <<>>
             /\ LastChunk.stored = "open"
             /\ Len(storeCalls) = Cardinality({n \in 1..Len(chunkLog) :
                                                  chunkLog[n].ids # <<>>})
       /\ (Len(chunkLog') > Len(chunkLog) /\ Len(chunkLog) > 0) =>
             /\ LastChunk.stored \in {"ok", "failed", "none"}
             /\ LastChunk.stored = "none" <=> LastChunk.ids = <<>>
             /\ LastChunk.stored = "none" =>
                   LastChunk.subBatches = <<>> /\ LastChunk.rows = 0
      ]_vars

\* the second chunk of a job has started after a first chunk that was
\* written to both stores
C30_Witness ==
    /\ Len(chunkLog) = 2
    /\ chunkLog[1].stored = "ok"
    /\ chunkLog[1].rows = PROCESSING_BATCH_SIZE
    /\ pc = "enrich"


\* the raw catalog behind the API, and its pages by what the request met
RawCatalog(a) == Flatten([k \in 1..Len(a.pages) |-> a.pages[k].products])
PagesWith(a, statuses) == {k \in 1..Len(a.pages) : a.pages[k].status \in statuses}

\* the job was given the API to fetch from, and has ended
FetchJobDone == api # NoApi /\ pc = "done"

\* C22 as stated: with every page answered, a product without id or name
\* is the only one skipped: the job returns a result and every well-formed
\* product of the catalog has its row in the mirror.
C22_AsStated ==
    (/\ FetchJobDone
     /\ PagesWith(api, {"ok"}) = DOMAIN api.pages
     /\ \E k \in 1..Len(RawCatalog(api)) : ~Malformed(RawCatalog(api)[k])) =>
        /\ outcome.kind = "returned"
        /\ \A k \in 1..Len(RawCatalog(api)) :
              ~Malformed(RawCatalog(api)[k]) =>
                 \E r \in mirror :
                    Addressed(r, DecString(RawCatalog(api)[k].product_id))

\* the products of the pages that were answered, converted
ProductsOfOkPages(a) ==
    ConvertAll(Flatten([k \in 1..Len(a.pages) |->
        IF a.pages[k].status = "ok" THEN a.pages[k].products ELSE <<>>])).products

\* C23 as stated: when one page of a catalog of well-formed products fails,
\* by a non-OK response or by a failed request, the fetch does not fail and
\* the job works on the products of all the other pages.
C23_AsStated ==
    (/\ FetchJobDone
     /\ PagesWith(api, {"ok", "notOk", "rejects"}) = DOMAIN api.pages
     /\ Cardinality(PagesWith(api, {"notOk", "rejects"})) = 1
     /\ \A k \in 1..Len(RawCatalog(api)) : ~Malformed(RawCatalog(api)[k]))
        => /\ outcome.kind = "returned"
           /\ products = ProductsOfOkPages(api)


\* the start indexes of the groups of a slow path of n products
GroupStarts(n) ==
    [k \in 1..CeilDiv(n, MAX_CONCURRENT_API_CALLS) |->
        (k - 1) * MAX_CONCURRENT_API_CALLS]

OtherRows(rows) == {r \in rows : r.appId = OtherTenant}
OtherRecords(index) == {r \in index : r.namespace = Namespace(OtherTenant)}

\* no lookup of the tenant has returned the other tenant's description, and
\* nothing of the tenant carries it
NoForeignDescription ==
    /\ \A c \in DOMAIN existingDescriptions :
          existingDescriptions[c] # ForeignDescription
    /\ \A k \in 1..Len(existingImageDescription) :
          existingImageDescription[k] # ForeignDescription
    /\ op.found # ForeignDescription
    /\ \A r \in mirror : r.appId = Tenant => r.imageDescription # ForeignDescription
    /\ \A r \in vectorIndex :
          r.namespace = Namespace(Tenant) => r.description # ForeignDescription

\* C25: every step of the tenant's import job and of its single-product
\* operations leaves the mirror rows and the index records of the other
\* tenant as they were, and no cache lookup of the tenant returns the other
\* tenant's description, although both tenants have products with the same
\* ids and the same first images.
C25_TenantIsolation ==
    [][/\ OtherRows(mirror') = OtherRows(mirror)
       /\ OtherRecords(vectorIndex') = OtherRecords(vectorIndex)
       /\ NoForeignDescription'
      ]_vars

\* the tenant's import and a single-product operation have both ended on
\* stores that hold the other tenant's product 1 with the same first image:
\* the tenant has its own row of product 1
C25_Witness ==
    /\ Returned
    /\ totalProcessedProducts > 0
    /\ op = NoOp /\ opResult.kind = "returned" /\ opResult.success
    /\ ForeignStores.rows \subseteq mirror
    /\ ForeignStores.index \subseteq vectorIndex
    /\ \E r \in mirror :
          /\ Addressed(r, DecString(1))
          /\ r.imageUrls = generateChecksum(U1)

\* the step on which setPublishedStatusWithFetch returns success after it
\* fetched the product and ran upsertSingleProduct
FetchedAndPublished ==
    /\ op.kind = "publishFetch"
    /\ op.at = "row"
    /\ op' = NoOp
    /\ opResult'.of = "publishFetch"
    /\ opResult'.success

\* the tenant's rows among rows, and the records of its namespace among
\* index, for an id
RowsOf(rows, id) == {r \in rows : r.appId = Tenant /\ r.productId = id}
RecordsOf(index, id) == {r \in index : r.namespace = Namespace(Tenant) /\ r.id = id}

\* C21: when setPublishedStatusWithFetch, called for a product id the
\* tenant's mirror does not hold, returns success with no import job running
\* beside it, the product it stored is the shop's product of that id with the
\* requested flag in place of the shop's, the mirror holds exactly one row of
\* that product, which was not there before, the row carries the requested
\* flag, and so does the one record of the product in the vector index
C21_PublishWithoutImport ==
    [][(FetchedAndPublished /\ pc = "start")
         => /\ \E found \in GetProductById(shop, op.id) :
                  op.product = [found EXCEPT !.isPublished = op.flag]
            /\ RowsOf(mirror, op.id) = {}
            /\ Cardinality(RowsOf(mirror', op.id)) = 1
            /\ \A r \in RowsOf(mirror', op.id) : r.isPublished = op.flag
            /\ mirror' \ RowsOf(mirror', op.id) = mirror
            /\ Cardinality(RecordsOf(vectorIndex', op.id)) = 1
            /\ \A r \in RecordsOf(vectorIndex', op.id) : r.isPublished = op.flag]_vars

\* the operation has stored product 1, which the shop publishes, as
\* unpublished: the caller asked for that
C21_Witness ==
    /\ pc = "start"
    /\ op = NoOp
    /\ opResult.of = "publishFetch"
    /\ opResult.success
    /\ \E r \in RowsOf(mirror, DecString(1)) :
          r.productName = ProductA.name /\ ~r.isPublished
    /\ \E r \in RecordsOf(vectorIndex, DecString(1)) : ~r.isPublished

\* a call of getAIResponse has ended
AskEnded == ask.pc = "idle" /\ aiResult.kind # "none"

\* the failure modes of a call: no image URL of a non-empty array validated;
\* the last model call was given up by withRetry; the content filter
\* triggered on the completion read last; that completion holds no text
NoUrlValidated == HasUrls(ask.imageUrls) /\ Len(ask.validUrls) = 0
ModelsFailed == ask.completion.kind = "error"
Filtered == ask.completion.kind = "completion" /\ ContentFilter(ask.completion)
EmptyCompletion ==
    /\ ask.completion.kind = "completion"
    /\ \/ ask.completion.choices # "one"
       \/ ~Truthy(ask.completion.content)

\* C24: a call of getAIResponse raises only when the shared client cannot
\* be built (no client yet and no API key), before any request is made; a
\* call that ends because no image URL validated, because the primary and
\* the fallback model failed after their retries, because the content filter
\* triggered, or with an empty completion returns the empty string, and any
\* other call returns the text of the completion
C24_NeverRaises ==
    AskEnded =>
        /\ aiResult.kind = "raised" => (~sharedClient /\ ask = NoAsk)
        /\ aiResult.kind = "returned" =>
              IF NoUrlValidated \/ ModelsFailed \/ Filtered \/ EmptyCompletion
              THEN aiResult.text = EmptyStr
              ELSE aiResult.text = ask.completion.content /\ Truthy(aiResult.text)

\* a call with a valid image URL has ended with the empty string after the
\* fallback model used up its retries
C24_Witness ==
    /\ AskEnded
    /\ ModelsFailed
    /\ ask.completion.retried
    /\ ask.attempt = MaxRetries
    /\ Len(ask.validUrls) > 0
    /\ aiResult = AiGave(EmptyStr)

\* the step on which the endpoint calls processAndStoreProducts, and the
\* app id it calls it with
ImportStarts == Len(started') = Len(started) + 1
StartedApp == started'[Len(started')]

\* the segment is the decimal numeral of a positive integer
PositiveInteger(segment) ==
    /\ Len(segment) > 0
    /\ \A k \in 1..Len(segment) : IsDigit(segment[k])
    /\ DigitsValue(segment, 0) > 0

\* the key of the active api_key row of an app, if it has one
ActiveKey(app) ==
    IF tables.keys[app].isActive THEN tables.keys[app].apiKey ELSE NoKey

\* the checks of the endpoint on the app id it parsed from the segment: the
\* import starts only for a parsed id above zero, with the header "Bearer "
\* followed by the active key of that app, for an app that exists and, when
\* it is a shopcada app, is configured; and a request is answered 400, 401,
\* 404 or 400 by the first of these that fails, when no query rejects
ImportGuarded ==
    /\ ImportStarts =>
          /\ ~ParseInt(request'.appId).nan
          /\ StartedApp = ParseInt(request'.appId).value
          /\ StartedApp > 0
          /\ StartedApp \in AppIds
          /\ ActiveKey(StartedApp) # NoKey
          /\ request'.authorization = Bearer \o ActiveKey(StartedApp)
          /\ tables.apps[StartedApp] # "absent"
          /\ tables.apps[StartedApp] = "shopcada" => tables.configs[StartedApp] = "set"
    /\ (posts' = posts + 1 /\ ~ImportStarts /\ reply'.status # 500) =>
          LET parsed == ParseInt(request'.appId)
              idOk   == ~parsed.nan /\ parsed.value > 0
              keyOk  == /\ idOk
                        /\ parsed.value \in AppIds
                        /\ ActiveKey(parsed.value) \notin {NoKey, EmptyStr}
                        /\ request'.authorization # Null
                        /\ request'.authorization = Bearer \o ActiveKey(parsed.value)
              appOk  == keyOk /\ tables.apps[parsed.value] # "absent"
          IN  /\ reply'.status = (IF ~idOk THEN 400 ELSE IF ~keyOk THEN 401
                                  ELSE IF ~appOk THEN 404 ELSE 400)
              /\ reply'.error = (IF ~idOk THEN "Invalid app ID"
                                 ELSE IF ~keyOk THEN "Invalid API key"
                                 ELSE IF ~appOk THEN "App not found"
                                 ELSE "App configuration missing")

\* C27: the import endpoint starts an import job only when the app id of
\* the request is a positive integer, the Authorization header is "Bearer "
\* followed by the active API key of that app, the app exists and a shopcada
\* app is configured, and it answers the first failed check with 400, 401,
\* 404 and 400 in that order
C27_AsStated ==
    [][/\ ImportGuarded
       /\ ImportStarts => PositiveInteger(request'.appId)]_vars

\* an import was started for the segment "1x"
C27_LaxSegment ==
    /\ Len(started) > 0
    /\ started[Len(started)] = Tenant
    /\ request.appId = <<49, 120>>
    /\ reply \in {Processing, Pending}

\* C40 as stated: the result of the job is self-consistent for every
\* catalog, the empty one included: the message "All products processed and
\* stored successfully" comes with status 200 and an imported_count equal to
\* the number of products fetched, and status 500 comes with the message
\* that reports fewer products processed than fetched.
C40_AsStated ==
    Returned =>
        /\ outcome.message = "All products processed and stored successfully" =>
              (outcome.status = 200 /\ outcome.imported_count = Len(products))
        /\ outcome.status = 500 =>
              outcome.message = "Processed some out of all products"

\* what processProduct's mirror query may hand back for a product: nothing
\* without a first image, else the description of any row with the checksum
FoundFor(rows, product) ==
    IF ImageUrlChecksum(product) = Null THEN {Null}
    ELSE FindFirst(rows, Tenant, ImageUrlChecksum(product))

\* the maps the pre-check builds from the rows with the product's checksum
MapsFor(rows, product) ==
    DescriptionMaps(RowsWithImage(rows, Tenant, {ImageUrlChecksum(product)}))

\* the prefetched map serves the product: it holds the checksum of its first
\* image, or the product has no image
Served(product, map) ==
    ImageUrlChecksum(product) \in DOMAIN map \/ Len(product.images) = 0

\* C31 as stated: in every mirror state, for every product and every map
\* prefetched from that mirror state which holds the product's first-image
\* checksum (or the product has no image), processProduct calls no vision
\* service and returns the record processProductWithCache returns.
C31_AsStated ==
    \A product \in ProductPool : \A map \in MapsFor(mirror, product) :
        Served(product, map) =>
            \A found \in FoundFor(mirror, product) :
                /\ ~NeedsVision(product, found)
                /\ StoreInfo(product, found) = processProductWithCache(product, map)

\* an error of create that withRetry retries
RetriedError(answer) == answer.kind = "error" /\ answer.retried

\* C32: withRetry calls fn at most maxRetries + 1 times; every call but the
\* last met an error that is retried, so nothing is called after a success
\* or after an error whose message holds content_filter, invalid_request or
\* authentication; it returns the completion of its last call or throws the
\* error of its last call, a retried error only after maxRetries + 1 calls;
\* and before retry k it slept baseDelay * 2^(k-1).
C32_WithRetry ==
    /\ Len(ask.tries) <= MaxRetries + 1
    /\ ask.delays = [k \in 1..ask.attempt |-> BaseDelay * 2 ^ (k - 1)]
    /\ LET e == ask.ended
           n == Len(e.tries)
       IN  e.how # "none" =>
              /\ n \in 1..(MaxRetries + 1)
              /\ \A k \in 1..(n - 1) : RetriedError(e.tries[k])
              /\ e.value = e.tries[n]
              /\ e.how = "returned" <=> e.value.kind = "completion"
              /\ e.how = "threw" <=> e.value.kind = "error"
              /\ RetriedError(e.value) => n = MaxRetries + 1
              /\ e.delays = [k \in 1..(n - 1) |-> BaseDelay * 2 ^ (k - 1)]

\* a withRetry that met the error "timeout", retried until attempt
\* maxRetries and threw the last error, "rate_limit"
C32_Witness ==
    /\ ask.ended.how = "threw"
    /\ Len(ask.ended.tries) = MaxRetries + 1
    /\ ask.ended.tries[1].message = "timeout"
    /\ ask.ended.value.message = "rate_limit"
    /\ Len(ask.ended.delays) = MaxRetries

\* C35 as stated: within one getAIResponse call the withRetry of the
\* fallback model is entered at most once, and the call makes at most
\* 2 * (maxRetries + 1) model requests.
C35_AsStated ==
    /\ ask.fallbacks <= 1
    /\ ask.requests <= 2 * (MaxRetries + 1)

(***************************************************************************)
(* The enrichment of the one-product catalog <<product 1>> for every text  *)
(* of at most MaxText characters of " ", "\n", "\r", "a", "." and ",":     *)
(* either the vision service answers that text, or a row of the tenant     *)
(* with the product's first-image checksum holds it as its description.    *)
(***************************************************************************)
TextChars == {32, 10, 13, 97, 46, 44}
RawTexts == UNION {[1..n -> TextChars] : n \in 1..MaxText}

\* the stores holding product 8 (image U1) with the given description
DescribedStores(text) ==
    LET record == StoreInfo([product_id |-> 8, name |-> <<104>>,
                             description |-> Null, images |-> <<U1>>,
                             isPublished |-> TRUE], text)
    IN  [index |-> UpsertRecords({}, Namespace(Tenant), <<record>>),
         rows  |-> {MirrorRow(Tenant, record)}]

FormatScenarios ==
    [catalog : {<<ProductA>>}, stores : {EmptyStores}, budget : {0},
     answers : {{AiReturns(text)} : text \in RawTexts}]
    \cup
    [catalog : {<<ProductA>>}, stores : {DescribedStores(text) : text \in RawTexts},
     budget : {0}, answers : {{AiThrows}}]

InitFormat ==
    /\ pluginName = "shopcada"
    /\ pluginConfig = "set"
    /\ Begin(FormatScenarios)

NextFormat ==
    \/ GetPluginProducts
    \/ StartBatch
    \/ PrecheckReturns
    \/ FastPath
    \/ StartGroup
    \/ \E k \in 1..MAX_CONCURRENT_API_CALLS : LookupReturns(k)
    \/ \E k \in 1..MAX_CONCURRENT_API_CALLS : VisionReturns(k)
    \/ GroupDone
    \/ FinishEnrichment

SpecFormat == InitFormat /\ [][NextFormat]_vars

\* the lines of a description: those joined by "\n", none for the empty string
Lines(text) == IF text = EmptyStr THEN <<>> ELSE SplitLines(text, <<>>)

\* no empty line, no line that starts or ends with white space, no two
\* white space characters in a row
Normalized(text) ==
    \A k \in 1..Len(Lines(text)) :
        LET line == Lines(text)[k]
        IN  /\ Len(line) > 0
            /\ ~IsSpace(line[1])
            /\ ~IsSpace(line[Len(line)])
            /\ \A j \in 1..(Len(line) - 1) : ~(IsSpace(line[j]) /\ IsSpace(line[j + 1]))

\* call k of the group got a non-empty description from the vision service
Described(k) ==
    /\ k \in 1..Len(phase)
    /\ phase[k] = "done"
    /\ visionAnswer[k].ok
    /\ Truthy(visionAnswer[k].text)

\* C33: the image description of a record built from a non-empty answer of
\* the vision service has no empty line, no line with leading or trailing
\* white space and no run of two or more white space characters; the image
\* description of a fast-path record is the prefetched description of its
\* first-image checksum, character for character.
C33_Normalized ==
    /\ pc = "group" =>
          \A k \in 1..Len(phase) :
              Described(k) => Normalized(groupResults[k][1].image_description)
    /\ pc = "enrich" =>
          \A k \in 1..fastIndex :
              results[k].image_description =
                  MapGet(existingDescriptions,
                         ImageUrlChecksum(productsWithCachedImages[k]))

\* the vision service answered "a. a", stored as the two lines "a." and "a"
C33_Witness ==
    /\ pc = "group"
    /\ Described(1)
    /\ visionAnswer[1].text = <<97, 46, 32, 97>>
    /\ groupResults[1][1].image_description = <<97, 46, 10, 97>>

\* C38 as stated: within one import job the vision service is called at
\* most once per distinct first-image checksum of the catalog.
C38_AsStated ==
    aiCalls <= Cardinality(ImageChecksums(products))

\* a step of a call of setPublishedStatusWithFetch: before the delegation,
\* or of the setPublishedStatus it delegated to
FetchCallStep == op.kind = "publishFetch" \/ op.via = "publishFetch"

\* the call has upserted its record to the vector index and the mirror
\* holds no row of the product
IndexedOnly ==
    /\ op.at = "row"
    /\ PineconeRecord(Namespace(Tenant), op.info) \in vectorIndex'
    /\ RowsOf(mirror', op.id) = {}

\* C34 as stated: setPublishedStatusWithFetch never raises; for a product
\* the mirror holds it only runs setPublishedStatus (no fetch, no vision
\* call, no record or row of a new product); and when it answers success
\* false for a product the mirror did not hold, it has created no mirror row
\* and no vector-index record.
C34_AsStated ==
    [][/\ (FetchCallStep /\ op' = NoOp) => opResult'.kind = "returned"
       /\ (op.via = "publishFetch" /\ op' # op) =>
             /\ aiCalls' = aiCalls
             /\ fetches' = fetches
             /\ {r.productId : r \in mirror'} = {r.productId : r \in mirror}
             /\ {r.id : r \in vectorIndex'} = {r.id : r \in vectorIndex}
       /\ (op.kind = "publishFetch" /\ op' = NoOp /\ ~opResult'.success) =>
             ~IndexedOnly]_vars

\* no operation and no chunk write of the tenant is between two store calls
NoWriteInProgress == op = NoOp /\ ~Storing

\* the record and the row are those of one product of the tenant
SameProduct(record, row) ==
    /\ record.namespace = Namespace(Tenant)
    /\ row.appId = Tenant
    /\ record.id = row.productId

\* C37 as stated: once the chunk writes and the single-product operations
\* started have ended, by success or by a failure at either store, every
\* product of the tenant held by both stores has the same publish flag in
\* both.
C37_AsStated ==
    NoWriteInProgress =>
        \A record \in vectorIndex, row \in mirror :
            SameProduct(record, row) => record.isPublished = row.isPublished

\* C36 as stated: when no write of the tenant is in progress, the mirror row
\* of every product held by both stores carries the checksum of the text of
\* its vector-index record, whatever the interleaving of the import job and
\* the single-product operations and whichever store call failed.
C36_AsStated ==
    NoWriteInProgress =>
        \A record \in vectorIndex, row \in mirror :
            SameProduct(record, row) => row.fullText = generateChecksum(record.text)

\* C36 as stated, for the interleavings alone: no store call has failed
C36_AsStatedNoFault ==
    (NoWriteInProgress /\ faults = 0) =>
        \A record \in vectorIndex, row \in mirror :
            SameProduct(record, row) => row.fullText = generateChecksum(record.text)

(***************************************************************************)
(* createApiKey(appId) followed query by query, one call at a time, and    *)
(* verifyApiKey for the headers a client may present.  The api_key table   *)
(* obeys its schema: app_id is unique and references an app.               *)
(***************************************************************************)
\* randomBytes(32).toString("hex"): a key not generated before ("a1", "a2", ...)
NewKey(n) == <<97, 48 + n>>

\* the headers presented: none, and "Bearer " followed by a generated key or
\* by the key "k"
KeyHeaders ==
    {Null, Bearer \o KeyK} \cup {Bearer \o NewKey(n) : n \in 1..MaxKeys}

\* what is left unchanged by a step of createApiKey or verifyApiKey
KeyFrame ==
    /\ UNCHANGED <<request, reply, started, posts>>
    /\ UNCHANGED <<worldVars, svcVars, fetchVars, aiVars, storeVars>>
    /\ UNCHANGED <<jobVars, batchVars, groupVars, writeVars, histVars>>

\* createApiKey(appId) is called: the key is generated
CreateApiKey ==
    /\ keyCall.pc = "idle"
    /\ Len(keyCall.made) < MaxKeys
    /\ \E app \in AppIds :
          keyCall' = [keyCall EXCEPT !.pc = "find", !.appId = app,
                                     !.apiKey = NewKey(Len(keyCall.made) + 1)]
    /\ UNCHANGED tables
    /\ KeyFrame

\* findFirst on appId returns: any row of the app, active or not
KeyFindFirst ==
    /\ keyCall.pc = "find"
    /\ keyCall' = [keyCall EXCEPT !.pc = IF tables.keys[keyCall.appId] # NoRow
                                        THEN "update" ELSE "insert"]
    /\ UNCHANGED tables
    /\ KeyFrame

\* update(apiKeys).set({isActive: false}).where(eq(appId))
KeyDeactivate ==
    /\ keyCall.pc = "update"
    /\ tables' = [tables EXCEPT !.keys[keyCall.appId].isActive = FALSE]
    /\ keyCall' = [keyCall EXCEPT !.pc = "insert"]
    /\ KeyFrame

\* the insert is rejected: the app has a row already (unique app_id), or
\* there is no such app (foreign key)
InsertRejected(app) ==
    tables.keys[app] # NoRow \/ tables.apps[app] = "absent"

\* insert(apiKeys).values({appId, apiKey, isActive: true}), and the return of
\* the key; a rejected insert makes createApiKey reject
KeyInsert ==
    /\ keyCall.pc = "insert"
    /\ LET app == keyCall.appId
       IN  IF InsertRejected(app)
           THEN /\ keyCall' = [keyCall EXCEPT !.pc = "idle",
                      !.made = Append(@, [appId |-> app, apiKey |-> keyCall.apiKey,
                                          returned |-> FALSE])]
                /\ UNCHANGED tables
           ELSE /\ keyCall' = [keyCall EXCEPT !.pc = "idle",
                      !.made = Append(@, [appId |-> app, apiKey |-> keyCall.apiKey,
                                          returned |-> TRUE])]
                /\ tables' = [tables EXCEPT !.keys[app] = ActiveRow(keyCall.apiKey)]
    /\ KeyFrame

\* verifyApiKey(request, appId) for a header
VerifyKey ==
    /\ keyCall.pc = "idle"
    /\ \E app \in AppIds, header \in KeyHeaders :
          keyCall' = [keyCall EXCEPT !.appId = app, !.header = header,
                                     !.accepted = VerifyApiKey(header, app)]
    /\ UNCHANGED tables
    /\ KeyFrame

\* the apps exist or not; an app that exists has no key yet or the key "k"
KeyTables ==
    {t \in [apps : [AppIds -> {"absent", "shopcada"}],
            keys : [AppIds -> {NoRow, ActiveRow(KeyK)}],
            configs : [AppIds -> {"absent"}],
            route : {"awaits"}] :
        /\ ForeignKeys(t)
        /\ t.apps[Tenant] = "shopcada"}

InitKeys ==
    /\ tables \in KeyTables
    /\ pluginName = "shopcada"
    /\ pluginConfig = "set"
    /\ BeginService([catalog : {<<>>}, stores : {EmptyStores}, budget : {0},
                     answers : {{AiThrows}}])

NextKeys ==
    \/ CreateApiKey
    \/ KeyFindFirst
    \/ KeyDeactivate
    \/ KeyInsert
    \/ VerifyKey

SpecKeys == InitKeys /\ [][NextKeys]_vars

\* the createApiKey calls made for an app, in order
MadeFor(app) == SelectSeq(keyCall.made, LAMBDA call : call.appId = app)

\* C39 as stated: once createApiKey calls for an app that exists have ended,
\* the app has exactly one active key row, and verifyApiKey accepts a header if and only
\* if it is "Bearer " followed by the key the most recent call returned.
C39_AsStated ==
    keyCall.pc = "idle" =>
        \A app \in AppIds :
            LET made == MadeFor(app)
            IN  (Len(made) > 0 /\ tables.apps[app] # "absent") =>
                   /\ tables.keys[app].isActive
                   /\ \A header \in KeyHeaders :
                         VerifyApiKey(header, app) <=>
                            /\ made[Len(made)].returned
                            /\ header = Bearer \o made[Len(made)].apiKey
====
